---- MODULE Spec2Model ----
(***************************************************************************)
(* Model of the lyric stress analysis engine of sammywachtel/lyrics:       *)
(*   backend/app/stress_analysis.py  (ComprehensiveStressAnalyzer)         *)
(*   backend/app/dictionary.py       (CMUDictionary, contextual rules)     *)
(*   backend/app/main.py             (the stress endpoints)                *)
(*                                                                         *)
(* A Python str is the sequence of the code points of its characters, so   *)
(* that lower(), strip(), split(), endswith() and the regular expressions  *)
(* are computed on characters as the code computes them.  Indices into a   *)
(* Python string or list are 0-based and are kept 0-based in every value   *)
(* the program returns (char_positions); the TLA+ sequences that hold      *)
(* them are 1-based.                                                       *)
(***************************************************************************)
EXTENDS Integers, Sequences, FiniteSets, TLC

VARIABLES
    pc,                 \* position of the operation being run
    doc,                \* the tagger's token stream for the text (nlp(text))
    g2p,                \* which G2P predictor the process holds (self.g2p)
    idx,                \* analyze_text: 1-based index of the next token of doc
    word_analyses,      \* analyze_text: the WordAnalysis list built so far
    total_syllables,    \* analyze_text: running total
    stressed_syllables, \* analyze_text: running count of digits > 0
    stress_sequence,    \* _apply_prosodic_smoothing: its local digit list
    scan_i,             \* _apply_prosodic_smoothing: the scan index i (0-based)
    mono_result,        \* analyze_monosyllable_stress: the returned pair
    lines,              \* analyze_batch_stress: request["lines"]
    line_number,        \* analyze_batch_stress: enumerate(lines, 1) counter
    results,            \* analyze_batch_stress: the results list
    status,             \* analyze_batch_stress: HTTP status of the answer, 0 before
    ctx_word,           \* analyze_contextual_stress: word
    ctx_context,        \* analyze_contextual_stress: context
    ctx_result,         \* analyze_contextual_stress: returned value
    al_word,            \* map_syllables_to_chars: word
    al_n,               \* map_syllables_to_chars: n_syllables
    al_result,          \* map_syllables_to_chars: returned list, None before
    dict_file,          \* the file at dict_path: Some(lines), None when missing
    self_dictionary,    \* CMUDictionary under construction: self._dictionary
    load_i,             \* _load_dictionary: 1-based index of the next line
    cmu_dict,           \* the global _cmu_dict: Some(self._dictionary), or None
    calls,              \* number of calls of get_cmu_dictionary so far
    loads,              \* number of constructions CMUDictionary() so far
    outcome,            \* how the last call of get_cmu_dictionary ended
    lookup_cache,       \* lru_cache of CMUDictionary.lookup, least recent first
    ph_cache,           \* lru_cache of get_phonemes, least recent first
    g2p_calls,          \* the words self.g2p has been invoked with, in order
    last_call,          \* the last call of lookup or get_phonemes and its result
    n_ops,              \* number of calls of lookup and get_phonemes so far
    threads,            \* concurrent callers of the two singleton getters
    g_cmu_dict,         \* callers: the global _cmu_dict, an instance or None
    g_stress_analyzer,  \* callers: the global _stress_analyzer, or None
    dict_loads,         \* callers: constructions CMUDictionary() so far
    analyzer_inits,     \* callers: analyzers constructed so far
    supabase,           \* SongsService: self.supabase, a client or None
    songs_table,        \* database: the rows of table "songs"
    song_versions,      \* database: the rows of table "song_versions", oldest first
    requests,           \* SongsService: the calls in progress and their outcomes
    song_calls          \* SongsService: calls started so far

vars == <<pc, doc, g2p, idx, word_analyses, total_syllables, stressed_syllables,
          stress_sequence, scan_i, mono_result, lines, line_number, results, status,
          ctx_word, ctx_context, ctx_result, al_word, al_n, al_result,
          dict_file, self_dictionary, load_i, cmu_dict, calls, loads, outcome,
          lookup_cache, ph_cache, g2p_calls, last_call, n_ops,
          threads, g_cmu_dict, g_stress_analyzer, dict_loads, analyzer_inits,
          supabase, songs_table, song_versions, requests, song_calls>>

(***************************************************************************)
(* Bounds of the model.                                                    *)
(***************************************************************************)
\* longest token stream analyze_text is run on
MaxTokens == 3
\* longest request["lines"] list of a batch request
MaxLines == 3
\* longest context, in words, given to analyze_contextual_stress
MaxCtxWords == 3
\* longest generated word given to map_syllables_to_chars
MaxWordLen == 3
\* largest n_syllables given to map_syllables_to_chars
MaxSyllables == 4
\* longest dictionary source file, in lines
MaxDictLines == 3
\* most calls of get_cmu_dictionary in one run of the process
MaxCalls == 3
\* most calls of lookup and get_phonemes in one run of the process
MaxOps == 3
\* number of concurrent callers of get_cmu_dictionary and get_stress_analyzer
NumCallers == 2
\* concurrent calls of the songs service
NumRequests == 2
\* calls of the songs service started in one behaviour
MaxSongCalls == 2
\* capacity of the cache of lookup in the model (maxsize=10000 in the code)
LookupCacheSize == 2
\* capacity of the cache of get_phonemes in the model (maxsize=1000 in the code)
PhonemeCacheSize == 2

(***************************************************************************)
(* Characters and Python string primitives.                                *)
(*                                                                         *)
(* A character is its code point, a number in 0 .. 1114111, and a Python   *)
(* str is the sequence of the code points of its characters; a comment     *)
(* after a str gives its text.  The tables of character properties are     *)
(* those of Unicode 14.0, the version of the unicodedata of Python 3.11.   *)
(***************************************************************************)
InSeq(c, s) == \E k \in 1..Len(s) : s[k] = c

\* c lies in one of the ranges first, last of the table
InRanges(c, table) ==
    \E k \in 1..(Len(table) \div 2) : table[2 * k - 1] <= c /\ c <= table[2 * k]

\* the characters \w of the re module matches in a str pattern (alphanumeric
\* or "_"), as ranges of code points: first, last, first, last, ..
WordRanges == <<
    48, 57, 65, 90, 95, 95, 97, 122, 170, 170, 178, 179, 181, 181, 185, 186,
    188, 190, 192, 214, 216, 246, 248, 705, 710, 721, 736, 740, 748, 748,
    750, 750, 880, 884, 886, 887, 890, 893, 895, 895, 902, 902, 904, 906,
    908, 908, 910, 929, 931, 1013, 1015, 1153, 1162, 1327, 1329, 1366, 1369,
    1369, 1376, 1416, 1488, 1514, 1519, 1522, 1568, 1610, 1632, 1641, 1646,
    1647, 1649, 1747, 1749, 1749, 1765, 1766, 1774, 1788, 1791, 1791, 1808,
    1808, 1810, 1839, 1869, 1957, 1969, 1969, 1984, 2026, 2036, 2037, 2042,
    2042, 2048, 2069, 2074, 2074, 2084, 2084, 2088, 2088, 2112, 2136, 2144,
    2154, 2160, 2183, 2185, 2190, 2208, 2249, 2308, 2361, 2365, 2365, 2384,
    2384, 2392, 2401, 2406, 2415, 2417, 2432, 2437, 2444, 2447, 2448, 2451,
    2472, 2474, 2480, 2482, 2482, 2486, 2489, 2493, 2493, 2510, 2510, 2524,
    2525, 2527, 2529, 2534, 2545, 2548, 2553, 2556, 2556, 2565, 2570, 2575,
    2576, 2579, 2600, 2602, 2608, 2610, 2611, 2613, 2614, 2616, 2617, 2649,
    2652, 2654, 2654, 2662, 2671, 2674, 2676, 2693, 2701, 2703, 2705, 2707,
    2728, 2730, 2736, 2738, 2739, 2741, 2745, 2749, 2749, 2768, 2768, 2784,
    2785, 2790, 2799, 2809, 2809, 2821, 2828, 2831, 2832, 2835, 2856, 2858,
    2864, 2866, 2867, 2869, 2873, 2877, 2877, 2908, 2909, 2911, 2913, 2918,
    2927, 2929, 2935, 2947, 2947, 2949, 2954, 2958, 2960, 2962, 2965, 2969,
    2970, 2972, 2972, 2974, 2975, 2979, 2980, 2984, 2986, 2990, 3001, 3024,
    3024, 3046, 3058, 3077, 3084, 3086, 3088, 3090, 3112, 3114, 3129, 3133,
    3133, 3160, 3162, 3165, 3165, 3168, 3169, 3174, 3183, 3192, 3198, 3200,
    3200, 3205, 3212, 3214, 3216, 3218, 3240, 3242, 3251, 3253, 3257, 3261,
    3261, 3293, 3294, 3296, 3297, 3302, 3311, 3313, 3314, 3332, 3340, 3342,
    3344, 3346, 3386, 3389, 3389, 3406, 3406, 3412, 3414, 3416, 3425, 3430,
    3448, 3450, 3455, 3461, 3478, 3482, 3505, 3507, 3515, 3517, 3517, 3520,
    3526, 3558, 3567, 3585, 3632, 3634, 3635, 3648, 3654, 3664, 3673, 3713,
    3714, 3716, 3716, 3718, 3722, 3724, 3747, 3749, 3749, 3751, 3760, 3762,
    3763, 3773, 3773, 3776, 3780, 3782, 3782, 3792, 3801, 3804, 3807, 3840,
    3840, 3872, 3891, 3904, 3911, 3913, 3948, 3976, 3980, 4096, 4138, 4159,
    4169, 4176, 4181, 4186, 4189, 4193, 4193, 4197, 4198, 4206, 4208, 4213,
    4225, 4238, 4238, 4240, 4249, 4256, 4293, 4295, 4295, 4301, 4301, 4304,
    4346, 4348, 4680, 4682, 4685, 4688, 4694, 4696, 4696, 4698, 4701, 4704,
    4744, 4746, 4749, 4752, 4784, 4786, 4789, 4792, 4798, 4800, 4800, 4802,
    4805, 4808, 4822, 4824, 4880, 4882, 4885, 4888, 4954, 4969, 4988, 4992,
    5007, 5024, 5109, 5112, 5117, 5121, 5740, 5743, 5759, 5761, 5786, 5792,
    5866, 5870, 5880, 5888, 5905, 5919, 5937, 5952, 5969, 5984, 5996, 5998,
    6000, 6016, 6067, 6103, 6103, 6108, 6108, 6112, 6121, 6128, 6137, 6160,
    6169, 6176, 6264, 6272, 6276, 6279, 6312, 6314, 6314, 6320, 6389, 6400,
    6430, 6470, 6509, 6512, 6516, 6528, 6571, 6576, 6601, 6608, 6618, 6656,
    6678, 6688, 6740, 6784, 6793, 6800, 6809, 6823, 6823, 6917, 6963, 6981,
    6988, 6992, 7001, 7043, 7072, 7086, 7141, 7168, 7203, 7232, 7241, 7245,
    7293, 7296, 7304, 7312, 7354, 7357, 7359, 7401, 7404, 7406, 7411, 7413,
    7414, 7418, 7418, 7424, 7615, 7680, 7957, 7960, 7965, 7968, 8005, 8008,
    8013, 8016, 8023, 8025, 8025, 8027, 8027, 8029, 8029, 8031, 8061, 8064,
    8116, 8118, 8124, 8126, 8126, 8130, 8132, 8134, 8140, 8144, 8147, 8150,
    8155, 8160, 8172, 8178, 8180, 8182, 8188, 8304, 8305, 8308, 8313, 8319,
    8329, 8336, 8348, 8450, 8450, 8455, 8455, 8458, 8467, 8469, 8469, 8473,
    8477, 8484, 8484, 8486, 8486, 8488, 8488, 8490, 8493, 8495, 8505, 8508,
    8511, 8517, 8521, 8526, 8526, 8528, 8585, 9312, 9371, 9450, 9471, 10102,
    10131, 11264, 11492, 11499, 11502, 11506, 11507, 11517, 11517, 11520,
    11557, 11559, 11559, 11565, 11565, 11568, 11623, 11631, 11631, 11648,
    11670, 11680, 11686, 11688, 11694, 11696, 11702, 11704, 11710, 11712,
    11718, 11720, 11726, 11728, 11734, 11736, 11742, 11823, 11823, 12293,
    12295, 12321, 12329, 12337, 12341, 12344, 12348, 12353, 12438, 12445,
    12447, 12449, 12538, 12540, 12543, 12549, 12591, 12593, 12686, 12690,
    12693, 12704, 12735, 12784, 12799, 12832, 12841, 12872, 12879, 12881,
    12895, 12928, 12937, 12977, 12991, 13312, 19903, 19968, 42124, 42192,
    42237, 42240, 42508, 42512, 42539, 42560, 42606, 42623, 42653, 42656,
    42735, 42775, 42783, 42786, 42888, 42891, 42954, 42960, 42961, 42963,
    42963, 42965, 42969, 42994, 43009, 43011, 43013, 43015, 43018, 43020,
    43042, 43056, 43061, 43072, 43123, 43138, 43187, 43216, 43225, 43250,
    43255, 43259, 43259, 43261, 43262, 43264, 43301, 43312, 43334, 43360,
    43388, 43396, 43442, 43471, 43481, 43488, 43492, 43494, 43518, 43520,
    43560, 43584, 43586, 43588, 43595, 43600, 43609, 43616, 43638, 43642,
    43642, 43646, 43695, 43697, 43697, 43701, 43702, 43705, 43709, 43712,
    43712, 43714, 43714, 43739, 43741, 43744, 43754, 43762, 43764, 43777,
    43782, 43785, 43790, 43793, 43798, 43808, 43814, 43816, 43822, 43824,
    43866, 43868, 43881, 43888, 44002, 44016, 44025, 44032, 55203, 55216,
    55238, 55243, 55291, 63744, 64109, 64112, 64217, 64256, 64262, 64275,
    64279, 64285, 64285, 64287, 64296, 64298, 64310, 64312, 64316, 64318,
    64318, 64320, 64321, 64323, 64324, 64326, 64433, 64467, 64829, 64848,
    64911, 64914, 64967, 65008, 65019, 65136, 65140, 65142, 65276, 65296,
    65305, 65313, 65338, 65345, 65370, 65382, 65470, 65474, 65479, 65482,
    65487, 65490, 65495, 65498, 65500, 65536, 65547, 65549, 65574, 65576,
    65594, 65596, 65597, 65599, 65613, 65616, 65629, 65664, 65786, 65799,
    65843, 65856, 65912, 65930, 65931, 66176, 66204, 66208, 66256, 66273,
    66299, 66304, 66339, 66349, 66378, 66384, 66421, 66432, 66461, 66464,
    66499, 66504, 66511, 66513, 66517, 66560, 66717, 66720, 66729, 66736,
    66771, 66776, 66811, 66816, 66855, 66864, 66915, 66928, 66938, 66940,
    66954, 66956, 66962, 66964, 66965, 66967, 66977, 66979, 66993, 66995,
    67001, 67003, 67004, 67072, 67382, 67392, 67413, 67424, 67431, 67456,
    67461, 67463, 67504, 67506, 67514, 67584, 67589, 67592, 67592, 67594,
    67637, 67639, 67640, 67644, 67644, 67647, 67669, 67672, 67702, 67705,
    67742, 67751, 67759, 67808, 67826, 67828, 67829, 67835, 67867, 67872,
    67897, 67968, 68023, 68028, 68047, 68050, 68096, 68112, 68115, 68117,
    68119, 68121, 68149, 68160, 68168, 68192, 68222, 68224, 68255, 68288,
    68295, 68297, 68324, 68331, 68335, 68352, 68405, 68416, 68437, 68440,
    68466, 68472, 68497, 68521, 68527, 68608, 68680, 68736, 68786, 68800,
    68850, 68858, 68899, 68912, 68921, 69216, 69246, 69248, 69289, 69296,
    69297, 69376, 69415, 69424, 69445, 69457, 69460, 69488, 69505, 69552,
    69579, 69600, 69622, 69635, 69687, 69714, 69743, 69745, 69746, 69749,
    69749, 69763, 69807, 69840, 69864, 69872, 69881, 69891, 69926, 69942,
    69951, 69956, 69956, 69959, 69959, 69968, 70002, 70006, 70006, 70019,
    70066, 70081, 70084, 70096, 70106, 70108, 70108, 70113, 70132, 70144,
    70161, 70163, 70187, 70272, 70278, 70280, 70280, 70282, 70285, 70287,
    70301, 70303, 70312, 70320, 70366, 70384, 70393, 70405, 70412, 70415,
    70416, 70419, 70440, 70442, 70448, 70450, 70451, 70453, 70457, 70461,
    70461, 70480, 70480, 70493, 70497, 70656, 70708, 70727, 70730, 70736,
    70745, 70751, 70753, 70784, 70831, 70852, 70853, 70855, 70855, 70864,
    70873, 71040, 71086, 71128, 71131, 71168, 71215, 71236, 71236, 71248,
    71257, 71296, 71338, 71352, 71352, 71360, 71369, 71424, 71450, 71472,
    71483, 71488, 71494, 71680, 71723, 71840, 71922, 71935, 71942, 71945,
    71945, 71948, 71955, 71957, 71958, 71960, 71983, 71999, 71999, 72001,
    72001, 72016, 72025, 72096, 72103, 72106, 72144, 72161, 72161, 72163,
    72163, 72192, 72192, 72203, 72242, 72250, 72250, 72272, 72272, 72284,
    72329, 72349, 72349, 72368, 72440, 72704, 72712, 72714, 72750, 72768,
    72768, 72784, 72812, 72818, 72847, 72960, 72966, 72968, 72969, 72971,
    73008, 73030, 73030, 73040, 73049, 73056, 73061, 73063, 73064, 73066,
    73097, 73112, 73112, 73120, 73129, 73440, 73458, 73648, 73648, 73664,
    73684, 73728, 74649, 74752, 74862, 74880, 75075, 77712, 77808, 77824,
    78894, 82944, 83526, 92160, 92728, 92736, 92766, 92768, 92777, 92784,
    92862, 92864, 92873, 92880, 92909, 92928, 92975, 92992, 92995, 93008,
    93017, 93019, 93025, 93027, 93047, 93053, 93071, 93760, 93846, 93952,
    94026, 94032, 94032, 94099, 94111, 94176, 94177, 94179, 94179, 94208,
    100343, 100352, 101589, 101632, 101640, 110576, 110579, 110581, 110587,
    110589, 110590, 110592, 110882, 110928, 110930, 110948, 110951, 110960,
    111355, 113664, 113770, 113776, 113788, 113792, 113800, 113808, 113817,
    119520, 119539, 119648, 119672, 119808, 119892, 119894, 119964, 119966,
    119967, 119970, 119970, 119973, 119974, 119977, 119980, 119982, 119993,
    119995, 119995, 119997, 120003, 120005, 120069, 120071, 120074, 120077,
    120084, 120086, 120092, 120094, 120121, 120123, 120126, 120128, 120132,
    120134, 120134, 120138, 120144, 120146, 120485, 120488, 120512, 120514,
    120538, 120540, 120570, 120572, 120596, 120598, 120628, 120630, 120654,
    120656, 120686, 120688, 120712, 120714, 120744, 120746, 120770, 120772,
    120779, 120782, 120831, 122624, 122654, 123136, 123180, 123191, 123197,
    123200, 123209, 123214, 123214, 123536, 123565, 123584, 123627, 123632,
    123641, 124896, 124902, 124904, 124907, 124909, 124910, 124912, 124926,
    124928, 125124, 125127, 125135, 125184, 125251, 125259, 125259, 125264,
    125273, 126065, 126123, 126125, 126127, 126129, 126132, 126209, 126253,
    126255, 126269, 126464, 126467, 126469, 126495, 126497, 126498, 126500,
    126500, 126503, 126503, 126505, 126514, 126516, 126519, 126521, 126521,
    126523, 126523, 126530, 126530, 126535, 126535, 126537, 126537, 126539,
    126539, 126541, 126543, 126545, 126546, 126548, 126548, 126551, 126551,
    126553, 126553, 126555, 126555, 126557, 126557, 126559, 126559, 126561,
    126562, 126564, 126564, 126567, 126570, 126572, 126578, 126580, 126583,
    126585, 126588, 126590, 126590, 126592, 126601, 126603, 126619, 126625,
    126627, 126629, 126633, 126635, 126651, 127232, 127244, 130032, 130041,
    131072, 173791, 173824, 177976, 177984, 178205, 178208, 183969, 183984,
    191456, 194560, 195101, 196608, 201546 >>

\* the characters str.isdigit() holds for
DigitRanges == <<
    48, 57, 178, 179, 185, 185, 1632, 1641, 1776, 1785, 1984, 1993, 2406,
    2415, 2534, 2543, 2662, 2671, 2790, 2799, 2918, 2927, 3046, 3055, 3174,
    3183, 3302, 3311, 3430, 3439, 3558, 3567, 3664, 3673, 3792, 3801, 3872,
    3881, 4160, 4169, 4240, 4249, 4969, 4977, 6112, 6121, 6160, 6169, 6470,
    6479, 6608, 6618, 6784, 6793, 6800, 6809, 6992, 7001, 7088, 7097, 7232,
    7241, 7248, 7257, 8304, 8304, 8308, 8313, 8320, 8329, 9312, 9320, 9332,
    9340, 9352, 9360, 9450, 9450, 9461, 9469, 9471, 9471, 10102, 10110,
    10112, 10120, 10122, 10130, 42528, 42537, 43216, 43225, 43264, 43273,
    43472, 43481, 43504, 43513, 43600, 43609, 44016, 44025, 65296, 65305,
    66720, 66729, 68160, 68163, 68912, 68921, 69216, 69224, 69714, 69722,
    69734, 69743, 69872, 69881, 69942, 69951, 70096, 70105, 70384, 70393,
    70736, 70745, 70864, 70873, 71248, 71257, 71360, 71369, 71472, 71481,
    71904, 71913, 72016, 72025, 72784, 72793, 73040, 73049, 73120, 73129,
    92768, 92777, 92864, 92873, 93008, 93017, 120782, 120831, 123200, 123209,
    123632, 123641, 125264, 125273, 127232, 127242, 130032, 130041 >>

\* the characters int() accepts as a digit: runs of ten, each starting at the
\* digit of value 0
DecimalRanges == <<
    48, 57, 1632, 1641, 1776, 1785, 1984, 1993, 2406, 2415, 2534, 2543, 2662,
    2671, 2790, 2799, 2918, 2927, 3046, 3055, 3174, 3183, 3302, 3311, 3430,
    3439, 3558, 3567, 3664, 3673, 3792, 3801, 3872, 3881, 4160, 4169, 4240,
    4249, 6112, 6121, 6160, 6169, 6470, 6479, 6608, 6617, 6784, 6793, 6800,
    6809, 6992, 7001, 7088, 7097, 7232, 7241, 7248, 7257, 42528, 42537,
    43216, 43225, 43264, 43273, 43472, 43481, 43504, 43513, 43600, 43609,
    44016, 44025, 65296, 65305, 66720, 66729, 68912, 68921, 69734, 69743,
    69872, 69881, 69942, 69951, 70096, 70105, 70384, 70393, 70736, 70745,
    70864, 70873, 71248, 71257, 71360, 71369, 71472, 71481, 71904, 71913,
    72016, 72025, 72784, 72793, 73040, 73049, 73120, 73129, 92768, 92777,
    92864, 92873, 93008, 93017, 120782, 120831, 123200, 123209, 123632,
    123641, 125264, 125273, 130032, 130041 >>

\* str.lower() of one character, as rows first, last, step, delta: the
\* characters first, first + step, .. last become themselves + delta
LowerTable == <<
    65, 90, 1, 32, 192, 214, 1, 32, 216, 222, 1, 32, 256, 302, 2, 1, 306,
    310, 2, 1, 313, 327, 2, 1, 330, 374, 2, 1, 376, 376, 1, -121, 377, 381,
    2, 1, 385, 385, 1, 210, 386, 388, 2, 1, 390, 390, 1, 206, 391, 391, 1, 1,
    393, 394, 1, 205, 395, 395, 1, 1, 398, 398, 1, 79, 399, 399, 1, 202, 400,
    400, 1, 203, 401, 401, 1, 1, 403, 403, 1, 205, 404, 404, 1, 207, 406,
    406, 1, 211, 407, 407, 1, 209, 408, 408, 1, 1, 412, 412, 1, 211, 413,
    413, 1, 213, 415, 415, 1, 214, 416, 420, 2, 1, 422, 422, 1, 218, 423,
    423, 1, 1, 425, 425, 1, 218, 428, 428, 1, 1, 430, 430, 1, 218, 431, 431,
    1, 1, 433, 434, 1, 217, 435, 437, 2, 1, 439, 439, 1, 219, 440, 440, 1, 1,
    444, 444, 1, 1, 452, 452, 1, 2, 453, 453, 1, 1, 455, 455, 1, 2, 456, 456,
    1, 1, 458, 458, 1, 2, 459, 475, 2, 1, 478, 494, 2, 1, 497, 497, 1, 2,
    498, 500, 2, 1, 502, 502, 1, -97, 503, 503, 1, -56, 504, 542, 2, 1, 544,
    544, 1, -130, 546, 562, 2, 1, 570, 570, 1, 10795, 571, 571, 1, 1, 573,
    573, 1, -163, 574, 574, 1, 10792, 577, 577, 1, 1, 579, 579, 1, -195, 580,
    580, 1, 69, 581, 581, 1, 71, 582, 590, 2, 1, 880, 882, 2, 1, 886, 886, 1,
    1, 895, 895, 1, 116, 902, 902, 1, 38, 904, 906, 1, 37, 908, 908, 1, 64,
    910, 911, 1, 63, 913, 929, 1, 32, 931, 939, 1, 32, 975, 975, 1, 8, 984,
    1006, 2, 1, 1012, 1012, 1, -60, 1015, 1015, 1, 1, 1017, 1017, 1, -7,
    1018, 1018, 1, 1, 1021, 1023, 1, -130, 1024, 1039, 1, 80, 1040, 1071, 1,
    32, 1120, 1152, 2, 1, 1162, 1214, 2, 1, 1216, 1216, 1, 15, 1217, 1229, 2,
    1, 1232, 1326, 2, 1, 1329, 1366, 1, 48, 4256, 4293, 1, 7264, 4295, 4295,
    1, 7264, 4301, 4301, 1, 7264, 5024, 5103, 1, 38864, 5104, 5109, 1, 8,
    7312, 7354, 1, -3008, 7357, 7359, 1, -3008, 7680, 7828, 2, 1, 7838, 7838,
    1, -7615, 7840, 7934, 2, 1, 7944, 7951, 1, -8, 7960, 7965, 1, -8, 7976,
    7983, 1, -8, 7992, 7999, 1, -8, 8008, 8013, 1, -8, 8025, 8031, 2, -8,
    8040, 8047, 1, -8, 8072, 8079, 1, -8, 8088, 8095, 1, -8, 8104, 8111, 1,
    -8, 8120, 8121, 1, -8, 8122, 8123, 1, -74, 8124, 8124, 1, -9, 8136, 8139,
    1, -86, 8140, 8140, 1, -9, 8152, 8153, 1, -8, 8154, 8155, 1, -100, 8168,
    8169, 1, -8, 8170, 8171, 1, -112, 8172, 8172, 1, -7, 8184, 8185, 1, -128,
    8186, 8187, 1, -126, 8188, 8188, 1, -9, 8486, 8486, 1, -7517, 8490, 8490,
    1, -8383, 8491, 8491, 1, -8262, 8498, 8498, 1, 28, 8544, 8559, 1, 16,
    8579, 8579, 1, 1, 9398, 9423, 1, 26, 11264, 11311, 1, 48, 11360, 11360,
    1, 1, 11362, 11362, 1, -10743, 11363, 11363, 1, -3814, 11364, 11364, 1,
    -10727, 11367, 11371, 2, 1, 11373, 11373, 1, -10780, 11374, 11374, 1,
    -10749, 11375, 11375, 1, -10783, 11376, 11376, 1, -10782, 11378, 11378,
    1, 1, 11381, 11381, 1, 1, 11390, 11391, 1, -10815, 11392, 11490, 2, 1,
    11499, 11501, 2, 1, 11506, 11506, 1, 1, 42560, 42604, 2, 1, 42624, 42650,
    2, 1, 42786, 42798, 2, 1, 42802, 42862, 2, 1, 42873, 42875, 2, 1, 42877,
    42877, 1, -35332, 42878, 42886, 2, 1, 42891, 42891, 1, 1, 42893, 42893,
    1, -42280, 42896, 42898, 2, 1, 42902, 42920, 2, 1, 42922, 42922, 1,
    -42308, 42923, 42923, 1, -42319, 42924, 42924, 1, -42315, 42925, 42925,
    1, -42305, 42926, 42926, 1, -42308, 42928, 42928, 1, -42258, 42929,
    42929, 1, -42282, 42930, 42930, 1, -42261, 42931, 42931, 1, 928, 42932,
    42946, 2, 1, 42948, 42948, 1, -48, 42949, 42949, 1, -42307, 42950, 42950,
    1, -35384, 42951, 42953, 2, 1, 42960, 42960, 1, 1, 42966, 42968, 2, 1,
    42997, 42997, 1, 1, 65313, 65338, 1, 32, 66560, 66599, 1, 40, 66736,
    66771, 1, 40, 66928, 66938, 1, 39, 66940, 66954, 1, 39, 66956, 66962, 1,
    39, 66964, 66965, 1, 39, 68736, 68786, 1, 64, 71840, 71871, 1, 32, 93760,
    93791, 1, 32, 125184, 125217, 1, 34 >>

\* the characters with the property Case_Ignorable
CaseIgnorableRanges == <<
    39, 39, 46, 46, 58, 58, 94, 94, 96, 96, 168, 168, 173, 173, 175, 175,
    180, 180, 183, 184, 688, 879, 884, 885, 890, 890, 900, 901, 903, 903,
    1155, 1161, 1369, 1369, 1375, 1375, 1425, 1469, 1471, 1471, 1473, 1474,
    1476, 1477, 1479, 1479, 1524, 1524, 1536, 1541, 1552, 1562, 1564, 1564,
    1600, 1600, 1611, 1631, 1648, 1648, 1750, 1757, 1759, 1768, 1770, 1773,
    1807, 1807, 1809, 1809, 1840, 1866, 1958, 1968, 2027, 2037, 2042, 2042,
    2045, 2045, 2070, 2093, 2137, 2139, 2184, 2184, 2192, 2193, 2200, 2207,
    2249, 2306, 2362, 2362, 2364, 2364, 2369, 2376, 2381, 2381, 2385, 2391,
    2402, 2403, 2417, 2417, 2433, 2433, 2492, 2492, 2497, 2500, 2509, 2509,
    2530, 2531, 2558, 2558, 2561, 2562, 2620, 2620, 2625, 2626, 2631, 2632,
    2635, 2637, 2641, 2641, 2672, 2673, 2677, 2677, 2689, 2690, 2748, 2748,
    2753, 2757, 2759, 2760, 2765, 2765, 2786, 2787, 2810, 2815, 2817, 2817,
    2876, 2876, 2879, 2879, 2881, 2884, 2893, 2893, 2901, 2902, 2914, 2915,
    2946, 2946, 3008, 3008, 3021, 3021, 3072, 3072, 3076, 3076, 3132, 3132,
    3134, 3136, 3142, 3144, 3146, 3149, 3157, 3158, 3170, 3171, 3201, 3201,
    3260, 3260, 3263, 3263, 3270, 3270, 3276, 3277, 3298, 3299, 3328, 3329,
    3387, 3388, 3393, 3396, 3405, 3405, 3426, 3427, 3457, 3457, 3530, 3530,
    3538, 3540, 3542, 3542, 3633, 3633, 3636, 3642, 3654, 3662, 3761, 3761,
    3764, 3772, 3782, 3782, 3784, 3789, 3864, 3865, 3893, 3893, 3895, 3895,
    3897, 3897, 3953, 3966, 3968, 3972, 3974, 3975, 3981, 3991, 3993, 4028,
    4038, 4038, 4141, 4144, 4146, 4151, 4153, 4154, 4157, 4158, 4184, 4185,
    4190, 4192, 4209, 4212, 4226, 4226, 4229, 4230, 4237, 4237, 4253, 4253,
    4348, 4348, 4957, 4959, 5906, 5908, 5938, 5939, 5970, 5971, 6002, 6003,
    6068, 6069, 6071, 6077, 6086, 6086, 6089, 6099, 6103, 6103, 6109, 6109,
    6155, 6159, 6211, 6211, 6277, 6278, 6313, 6313, 6432, 6434, 6439, 6440,
    6450, 6450, 6457, 6459, 6679, 6680, 6683, 6683, 6742, 6742, 6744, 6750,
    6752, 6752, 6754, 6754, 6757, 6764, 6771, 6780, 6783, 6783, 6823, 6823,
    6832, 6862, 6912, 6915, 6964, 6964, 6966, 6970, 6972, 6972, 6978, 6978,
    7019, 7027, 7040, 7041, 7074, 7077, 7080, 7081, 7083, 7085, 7142, 7142,
    7144, 7145, 7149, 7149, 7151, 7153, 7212, 7219, 7222, 7223, 7288, 7293,
    7376, 7378, 7380, 7392, 7394, 7400, 7405, 7405, 7412, 7412, 7416, 7417,
    7468, 7530, 7544, 7544, 7579, 7679, 8125, 8125, 8127, 8129, 8141, 8143,
    8157, 8159, 8173, 8175, 8189, 8190, 8203, 8207, 8216, 8217, 8228, 8228,
    8231, 8231, 8234, 8238, 8288, 8292, 8294, 8303, 8305, 8305, 8319, 8319,
    8336, 8348, 8400, 8432, 11388, 11389, 11503, 11505, 11631, 11631, 11647,
    11647, 11744, 11775, 11823, 11823, 12293, 12293, 12330, 12333, 12337,
    12341, 12347, 12347, 12441, 12446, 12540, 12542, 40981, 40981, 42232,
    42237, 42508, 42508, 42607, 42610, 42612, 42621, 42623, 42623, 42652,
    42655, 42736, 42737, 42752, 42785, 42864, 42864, 42888, 42890, 42994,
    42996, 43000, 43001, 43010, 43010, 43014, 43014, 43019, 43019, 43045,
    43046, 43052, 43052, 43204, 43205, 43232, 43249, 43263, 43263, 43302,
    43309, 43335, 43345, 43392, 43394, 43443, 43443, 43446, 43449, 43452,
    43453, 43471, 43471, 43493, 43494, 43561, 43566, 43569, 43570, 43573,
    43574, 43587, 43587, 43596, 43596, 43632, 43632, 43644, 43644, 43696,
    43696, 43698, 43700, 43703, 43704, 43710, 43711, 43713, 43713, 43741,
    43741, 43756, 43757, 43763, 43764, 43766, 43766, 43867, 43871, 43881,
    43883, 44005, 44005, 44008, 44008, 44013, 44013, 64286, 64286, 64434,
    64450, 65024, 65039, 65043, 65043, 65056, 65071, 65106, 65106, 65109,
    65109, 65279, 65279, 65287, 65287, 65294, 65294, 65306, 65306, 65342,
    65342, 65344, 65344, 65392, 65392, 65438, 65439, 65507, 65507, 65529,
    65531, 66045, 66045, 66272, 66272, 66422, 66426, 67456, 67461, 67463,
    67504, 67506, 67514, 68097, 68099, 68101, 68102, 68108, 68111, 68152,
    68154, 68159, 68159, 68325, 68326, 68900, 68903, 69291, 69292, 69446,
    69456, 69506, 69509, 69633, 69633, 69688, 69702, 69744, 69744, 69747,
    69748, 69759, 69761, 69811, 69814, 69817, 69818, 69821, 69821, 69826,
    69826, 69837, 69837, 69888, 69890, 69927, 69931, 69933, 69940, 70003,
    70003, 70016, 70017, 70070, 70078, 70089, 70092, 70095, 70095, 70191,
    70193, 70196, 70196, 70198, 70199, 70206, 70206, 70367, 70367, 70371,
    70378, 70400, 70401, 70459, 70460, 70464, 70464, 70502, 70508, 70512,
    70516, 70712, 70719, 70722, 70724, 70726, 70726, 70750, 70750, 70835,
    70840, 70842, 70842, 70847, 70848, 70850, 70851, 71090, 71093, 71100,
    71101, 71103, 71104, 71132, 71133, 71219, 71226, 71229, 71229, 71231,
    71232, 71339, 71339, 71341, 71341, 71344, 71349, 71351, 71351, 71453,
    71455, 71458, 71461, 71463, 71467, 71727, 71735, 71737, 71738, 71995,
    71996, 71998, 71998, 72003, 72003, 72148, 72151, 72154, 72155, 72160,
    72160, 72193, 72202, 72243, 72248, 72251, 72254, 72263, 72263, 72273,
    72278, 72281, 72283, 72330, 72342, 72344, 72345, 72752, 72758, 72760,
    72765, 72767, 72767, 72850, 72871, 72874, 72880, 72882, 72883, 72885,
    72886, 73009, 73014, 73018, 73018, 73020, 73021, 73023, 73029, 73031,
    73031, 73104, 73105, 73109, 73109, 73111, 73111, 73459, 73460, 78896,
    78904, 92912, 92916, 92976, 92982, 92992, 92995, 94031, 94031, 94095,
    94111, 94176, 94177, 94179, 94180, 110576, 110579, 110581, 110587,
    110589, 110590, 113821, 113822, 113824, 113827, 118528, 118573, 118576,
    118598, 119143, 119145, 119155, 119170, 119173, 119179, 119210, 119213,
    119362, 119364, 121344, 121398, 121403, 121452, 121461, 121461, 121476,
    121476, 121499, 121503, 121505, 121519, 122880, 122886, 122888, 122904,
    122907, 122913, 122915, 122916, 122918, 122922, 123184, 123197, 123566,
    123566, 123628, 123631, 125136, 125142, 125252, 125259, 127995, 127999,
    917505, 917505, 917536, 917631, 917760, 917999 >>

\* the characters with the property Cased
CasedRanges == <<
    65, 90, 97, 122, 170, 170, 181, 181, 186, 186, 192, 214, 216, 246, 248,
    442, 444, 447, 452, 659, 661, 696, 704, 705, 736, 740, 837, 837, 880,
    883, 886, 887, 890, 893, 895, 895, 902, 902, 904, 906, 908, 908, 910,
    929, 931, 1013, 1015, 1153, 1162, 1327, 1329, 1366, 1376, 1416, 4256,
    4293, 4295, 4295, 4301, 4301, 4304, 4346, 4349, 4351, 5024, 5109, 5112,
    5117, 7296, 7304, 7312, 7354, 7357, 7359, 7424, 7615, 7680, 7957, 7960,
    7965, 7968, 8005, 8008, 8013, 8016, 8023, 8025, 8025, 8027, 8027, 8029,
    8029, 8031, 8061, 8064, 8116, 8118, 8124, 8126, 8126, 8130, 8132, 8134,
    8140, 8144, 8147, 8150, 8155, 8160, 8172, 8178, 8180, 8182, 8188, 8305,
    8305, 8319, 8319, 8336, 8348, 8450, 8450, 8455, 8455, 8458, 8467, 8469,
    8469, 8473, 8477, 8484, 8484, 8486, 8486, 8488, 8488, 8490, 8493, 8495,
    8500, 8505, 8505, 8508, 8511, 8517, 8521, 8526, 8526, 8544, 8575, 8579,
    8580, 9398, 9449, 11264, 11492, 11499, 11502, 11506, 11507, 11520, 11557,
    11559, 11559, 11565, 11565, 42560, 42605, 42624, 42653, 42786, 42887,
    42891, 42894, 42896, 42954, 42960, 42961, 42963, 42963, 42965, 42969,
    42997, 42998, 43000, 43002, 43824, 43866, 43868, 43880, 43888, 43967,
    64256, 64262, 64275, 64279, 65313, 65338, 65345, 65370, 66560, 66639,
    66736, 66771, 66776, 66811, 66928, 66938, 66940, 66954, 66956, 66962,
    66964, 66965, 66967, 66977, 66979, 66993, 66995, 67001, 67003, 67004,
    67456, 67456, 67459, 67461, 67463, 67504, 67506, 67514, 68736, 68786,
    68800, 68850, 71840, 71903, 93760, 93823, 119808, 119892, 119894, 119964,
    119966, 119967, 119970, 119970, 119973, 119974, 119977, 119980, 119982,
    119993, 119995, 119995, 119997, 120003, 120005, 120069, 120071, 120074,
    120077, 120084, 120086, 120092, 120094, 120121, 120123, 120126, 120128,
    120132, 120134, 120134, 120138, 120144, 120146, 120485, 120488, 120512,
    120514, 120538, 120540, 120570, 120572, 120596, 120598, 120628, 120630,
    120654, 120656, 120686, 120688, 120712, 120714, 120744, 120746, 120770,
    120772, 120779, 122624, 122633, 122635, 122654, 125184, 125251, 127280,
    127305, 127312, 127337, 127344, 127369 >>

\* the characters of the Unicode property White_Space
WhiteSpace == {9, 10, 11, 12, 13, 32, 133, 160, 5760,
               8192, 8193, 8194, 8195, 8196, 8197, 8198, 8199, 8200, 8201, 8202,
               8232, 8233, 8239, 8287, 12288}
\* the separators 0x1c .. 0x1f, whitespace for str.isspace() only
InformationSeparators == {28, 29, 30, 31}
\* str.isspace(): what strip(), split() and \s of the re module take for
\* whitespace
SpaceChars == WhiteSpace \cup InformationSeparators

\* the class [A-Z] of the re module
IsUpper(c) == c \in 65..90
\* the class [0-9]
IsAsciiDigit(c) == c \in 48..57
\* str.isdigit() of one character
IsDigit(c) == IF c < 128 THEN IsAsciiDigit(c) ELSE InRanges(c, DigitRanges)
IsSpace(c) == c \in SpaceChars
\* \w of the re module on str patterns: the alphanumeric characters of
\* Unicode and the underscore
IsWordChar(c) ==
    IF c < 128
    THEN IsAsciiDigit(c) \/ IsUpper(c) \/ c \in 97..122 \/ c = 95
    ELSE InRanges(c, WordRanges)

\* int(c) raises ValueError
IntRaises(c) == ~InRanges(c, DecimalRanges)

\* int(c) for a character it accepts
DigitValue(c) ==
    LET table == DecimalRanges
        k == CHOOSE n \in 1..(Len(table) \div 2) :
                 table[2 * n - 1] <= c /\ c <= table[2 * n]
    IN  (c - table[2 * k - 1]) % 10

\* _PyUnicode_ToLowerFull: the lower case of one character taken alone, of
\* two characters for U+0130
ToLowerFull(c) ==
    IF c < 128 THEN (IF IsUpper(c) THEN <<c + 32>> ELSE <<c>>)
    ELSE IF c = 304 THEN <<105, 775>>
    ELSE LET table == LowerTable
             rows == {k \in 0..(Len(table) \div 4 - 1) :
                         /\ table[4 * k + 1] <= c /\ c <= table[4 * k + 2]
                         /\ (c - table[4 * k + 1]) % table[4 * k + 3] = 0}
         IN  IF rows = {} THEN <<c>>
             ELSE <<c + table[4 * (CHOOSE k \in rows : TRUE) + 4]>>

\* what handle_capital_sigma asks of a character: _PyUnicode_IsCaseIgnorable,
\* and _PyUnicode_IsCased when it is not case-ignorable
CaseClass(c) ==
    IF InRanges(c, CaseIgnorableRanges) THEN "ignorable"
    ELSE IF InRanges(c, CasedRanges) THEN "cased" ELSE "other"

\* final_sigma of handle_capital_sigma on the classes of the characters: the
\* nearest character before position i that is not case-ignorable is cased,
\* and the nearest such character after it, if any, is not
SigmaIsFinal(class, i) ==
    /\ \E j \in 1..(i - 1) :
          /\ class[j] = "cased"
          /\ \A m \in (j + 1)..(i - 1) : class[m] = "ignorable"
    /\ \A j \in (i + 1)..Len(class) :
          \/ class[j] # "cased"
          \/ \E m \in (i + 1)..(j - 1) : class[m] # "ignorable"

\* handle_capital_sigma: the capital sigma at position i of s stands at the
\* end of a word
FinalSigma(s, i) == SigmaIsFinal([j \in 1..Len(s) |-> CaseClass(s[j])], i)

\* the strings ss one after the other
RECURSIVE Flatten(_)
Flatten(ss) == IF ss = <<>> THEN <<>> ELSE Head(ss) \o Flatten(Tail(ss))

\* the lower case of the character at position k of s
LowerAt(s, k) ==
    IF s[k] = 931 THEN <<IF FinalSigma(s, k) THEN 962 ELSE 963>>
    ELSE ToLowerFull(s[k])

\* the lower cases parts of the characters of a str, one after the other
JoinLower(parts) ==
    IF \A k \in 1..Len(parts) : Len(parts[k]) = 1
    THEN [k \in 1..Len(parts) |-> parts[k][1]]
    ELSE Flatten(parts)

\* str.lower()
Lower(s) == JoinLower([k \in 1..Len(s) |-> LowerAt(s, k)])

\* c.lower() for one character c
LowerChar(c) == Lower(<<c>>)

RECURSIVE LStrip(_)
LStrip(s) == IF s # <<>> /\ IsSpace(Head(s)) THEN LStrip(Tail(s)) ELSE s

RECURSIVE RStrip(_)
RStrip(s) ==
    IF s # <<>> /\ IsSpace(s[Len(s)]) THEN RStrip(SubSeq(s, 1, Len(s) - 1)) ELSE s

\* str.strip()
Strip(s) == RStrip(LStrip(s))

\* str.endswith(suf)
EndsWith(s, suf) ==
    /\ Len(suf) <= Len(s)
    /\ SubSeq(s, Len(s) - Len(suf) + 1, Len(s)) = suf

\* str.startswith(pre)
StartsWith(s, pre) ==
    /\ Len(pre) <= Len(s)
    /\ SubSeq(s, 1, Len(pre)) = pre

\* sep.join(parts) for the one-character separator " "
RECURSIVE JoinSpace(_)
JoinSpace(parts) ==
    IF parts = <<>> THEN <<>>
    ELSE IF Len(parts) = 1 THEN parts[1]
    ELSE parts[1] \o <<32>> (* " " *) \o JoinSpace(Tail(parts))

\* str.split(): the maximal runs of non-whitespace characters, in order
RunStarts(s) ==
    {k \in 1..Len(s) : ~IsSpace(s[k]) /\ (k = 1 \/ IsSpace(s[k - 1]))}

\* the last position of the run that starts at k
RunEnd(s, k) ==
    CHOOSE e \in k..Len(s) :
        /\ \A j \in k..e : ~IsSpace(s[j])
        /\ (e = Len(s) \/ IsSpace(s[e + 1]))

\* the runs that start at the positions starts, in order
RunsFrom(s, starts) ==
    [n \in 1..Cardinality(starts) |->
        LET k == CHOOSE x \in starts : Cardinality({y \in starts : y <= x}) = n
        IN  SubSeq(s, k, RunEnd(s, k))]

Split(s) == RunsFrom(s, RunStarts(s))

RECURSIVE SumSeq(_)
SumSeq(s) == IF s = <<>> THEN 0 ELSE Head(s) + SumSeq(Tail(s))

RECURSIVE Concat(_)
Concat(ss) == IF ss = <<>> THEN <<>> ELSE Head(ss) \o Concat(Tail(ss))

\* the tuples over S of length lo..hi
SeqsUpTo(S, lo, hi) == UNION {[1..n -> S] : n \in lo..hi}

(***************************************************************************)
(* int(i * (a / b)) as Python computes it for integers i >= 0, a >= 0 and  *)
(* b >= 1: a / b is the quotient rounded to the nearest double (53         *)
(* significant bits, a tie to the even one), i * (a / b) is the product    *)
(* rounded the same way, and int() drops the fraction.  A double is held   *)
(* as [m, e]: the 53 bits m, most significant first, of the value m * 2^e. *)
(***************************************************************************)
RECURSIVE BitsOf(_)
BitsOf(n) == IF n < 2 THEN <<n>> ELSE Append(BitsOf(n \div 2), n % 2)

RECURSIVE IntOfBits(_)
IntOfBits(bits) ==
    IF bits = <<>> THEN 0
    ELSE 2 * IntOfBits(SubSeq(bits, 1, Len(bits) - 1)) + bits[Len(bits)]

\* bits + 1, for bits that are not all 1
Increment(bits) ==
    LET last0 == CHOOSE k \in 1..Len(bits) :
                     bits[k] = 0 /\ \A j \in (k + 1)..Len(bits) : bits[j] = 1
    IN  [k \in 1..Len(bits) |->
            IF k < last0 THEN bits[k] ELSE IF k = last0 THEN 1 ELSE 0]

\* smallest k >= 0 with a * 2^k >= b
RECURSIVE ShiftToReach(_, _)
ShiftToReach(a, b) == IF a >= b THEN 0 ELSE 1 + ShiftToReach(2 * a, b)

RECURSIVE TwoTo(_)
TwoTo(k) == IF k = 0 THEN 1 ELSE 2 * TwoTo(k - 1)

\* 2^j mod b
RECURSIVE TwoToMod(_, _)
TwoToMod(j, b) ==
    IF j = 0 THEN 1 % b
    ELSE IF j % 2 = 0 THEN (TwoToMod(j \div 2, b) * TwoToMod(j \div 2, b)) % b
    ELSE (2 * TwoToMod(j - 1, b)) % b

\* what is left of r / b (0 <= r < b) after the first count bits of its
\* binary fraction: (r * 2^count) mod b
FracRem(r, b, count) == (r * TwoToMod(count, b)) % b

\* the first count bits of the binary fraction r / b
FracBits(r, b, count) ==
    [j \in 1..count |-> IF 2 * FracRem(r, b, j - 1) >= b THEN 1 ELSE 0]

\* the double nearest to bits * 2^e (+ something below the last bit when
\* sticky), bits starting with 1
RoundToDouble(bits, e, sticky) ==
    IF Len(bits) <= 53
    THEN [m |-> bits \o [k \in 1..(53 - Len(bits)) |-> 0], e |-> e - (53 - Len(bits))]
    ELSE LET keep == SubSeq(bits, 1, 53)
             below == SubSeq(bits, 55, Len(bits))
             up == /\ bits[54] = 1
                   /\ \/ sticky
                      \/ \E k \in 1..Len(below) : below[k] = 1
                      \/ keep[53] = 1
             e53 == e + (Len(bits) - 53)
         IN  IF ~up THEN [m |-> keep, e |-> e53]
             ELSE IF \A k \in 1..53 : keep[k] = 1
             THEN [m |-> <<1>> \o [k \in 1..52 |-> 0], e |-> e53 + 1]
             ELSE [m |-> Increment(keep), e |-> e53]

\* a / b (true division of two positive integers)
DoubleQuotient(a, b) ==
    LET k == ShiftToReach(a, b)
        whole == BitsOf((a * TwoTo(k)) \div b)
        count == 54 - Len(whole)
    IN  RoundToDouble(whole \o FracBits((a * TwoTo(k)) % b, b, count),
                      0 - count - k,
                      FracRem((a * TwoTo(k)) % b, b, count) # 0)

\* bits * i + carry for a small integer i, in at least Len(bits) bits: the
\* low half first, the bits it carries out going into the high half
RECURSIVE TimesSmall(_, _, _)
TimesSmall(bits, i, carry) ==
    IF Len(bits) = 1 THEN BitsOf(bits[1] * i + carry)
    ELSE LET half == Len(bits) \div 2
             low == TimesSmall(SubSeq(bits, half + 1, Len(bits)), i, carry)
             out == Len(low) - (Len(bits) - half)
         IN  IF out = 0
             THEN TimesSmall(SubSeq(bits, 1, half), i, 0) \o low
             ELSE TimesSmall(SubSeq(bits, 1, half), i, IntOfBits(SubSeq(low, 1, out)))
                  \o SubSeq(low, out + 1, Len(low))

\* i * x for an integer i >= 1 and a double x
DoubleTimes(i, x) == RoundToDouble(TimesSmall(x.m, i, 0), x.e, FALSE)

\* int(x) for a double x >= 0 below 2^31
IntOfDouble(x) ==
    IF 53 + x.e <= 0 THEN 0
    ELSE IF x.e <= 0 THEN IntOfBits(SubSeq(x.m, 1, 53 + x.e))
    ELSE IntOfBits(x.m) * TwoTo(x.e)

\* int(i * (a / b)) for i, a, b below 1024.  When b divides a the quotient and
\* the product are integers, and exact.  When b does not divide i * a the
\* exact i * a / b lies at least 1/b away from every integer and the two
\* roundings move the product by less than 2^-40, so what int() keeps is
\* floor(i * a / b).  When b divides i * a but not a, the roundings decide
\* whether the product reaches that integer or stays just below it.
IntOfProduct(i, a, b) ==
    IF i = 0 \/ a = 0 THEN 0
    ELSE IF a % b = 0 THEN i * (a \div b)
    ELSE IF (i * a) % b # 0 THEN (i * a) \div b
    ELSE IntOfDouble(DoubleTimes(i, DoubleQuotient(a, b)))

\* Optional values: None is the empty tuple, a present value x is <<x>>
None == <<>>
Some(x) == <<x>>

(***************************************************************************)
(* Tokens of the tagger (spaCy Token): text, pos_, dep_, lemma_, is_punct. *)
(* The tagger is a black box: a token stream is any sequence of such       *)
(* records.                                                                *)
(***************************************************************************)
Tok(t, p, d, l, ip) == [text |-> t, pos |-> p, dep |-> d, lemma |-> l, is_punct |-> ip]

\* the coarse tags of the tagger (token.pos_)
PosTags == {"ADJ", "ADP", "ADV", "AUX", "CCONJ", "DET", "INTJ", "NOUN", "NUM",
            "PART", "PRON", "PROPN", "PUNCT", "SCONJ", "SYM", "VERB", "X", "SPACE"}

\* pos.lower() on the tags
PosLower(p) ==
    CASE p = "ADJ" -> "adj"     [] p = "ADP" -> "adp"     [] p = "ADV" -> "adv"
      [] p = "AUX" -> "aux"     [] p = "CCONJ" -> "cconj" [] p = "DET" -> "det"
      [] p = "INTJ" -> "intj"   [] p = "NOUN" -> "noun"   [] p = "NUM" -> "num"
      [] p = "PART" -> "part"   [] p = "PRON" -> "pron"   [] p = "PROPN" -> "propn"
      [] p = "PUNCT" -> "punct" [] p = "SCONJ" -> "sconj" [] p = "SYM" -> "sym"
      [] p = "VERB" -> "verb"   [] p = "X" -> "x"         [] p = "SPACE" -> "space"

\* the closed-class and open-class tag sets of analyze_monosyllable_stress
FunctionPos == {"DET", "PRON", "ADP", "AUX", "PART", "CCONJ", "SCONJ"}
ContentPos == {"NOUN", "VERB", "ADJ", "ADV", "INTJ"}

(***************************************************************************)
(* A reasoning tag is held as the sequence of its parts between the "_"    *)
(* characters: "function_word_unstressed_det" is                           *)
(* <<"function","word","unstressed","det">>.                               *)
(***************************************************************************)
\* reasoning.startswith(prefix + "_"), prefix given by its parts
ReasonStartsWith(r, pre) ==
    /\ Len(r) > Len(pre)
    /\ SubSeq(r, 1, Len(pre)) = pre

\* truth value of a Token: spaCy's Token.__len__ is the length of its text
TokenTruthy(t) == Len(t.text) > 0

\* variant: the "there" rule without the test of the next token's tag
AnalyzeMonoNoNextCheck(d, i) ==
    LET token == d[i]
        word == Lower(token.text)
        pos == token.pos
    IN  IF word = <<110, 111, 116>> (* "not" *) \/ EndsWith(token.text, <<110, 39, 116>> (* "n't" *))
        THEN <<1, <<"negation", "stressed">>>>
        ELSE IF word = <<116, 104, 101, 114, 101>> (* "there" *)
        THEN LET has_next == i < Len(d)
             IN  IF has_next /\ TokenTruthy(d[i + 1]) /\ d[i + 1].lemma = "be"
                 THEN <<0, <<"existential", "there", "unstressed">>>>
                 ELSE <<1, <<"locative", "there", "stressed">>>>
        ELSE IF token.dep = "prt"
        THEN <<1, <<"phrasal", "verb", "particle", "stressed">>>>
        ELSE IF pos \in FunctionPos
        THEN <<0, <<"function", "word", "unstressed", PosLower(pos)>>>>
        ELSE IF pos \in ContentPos
        THEN <<1, <<"content", "word", "stressed", PosLower(pos)>>>>
        ELSE <<0, <<"default", "unstressed", PosLower(pos)>>>>

\* variant: the particle rule placed before the negation rule
AnalyzeMonoParticleFirst(d, i) ==
    LET token == d[i]
        word == Lower(token.text)
        pos == token.pos
    IN  IF token.dep = "prt"
        THEN <<1, <<"phrasal", "verb", "particle", "stressed">>>>
        ELSE IF word = <<110, 111, 116>> (* "not" *) \/ EndsWith(token.text, <<110, 39, 116>> (* "n't" *))
        THEN <<1, <<"negation", "stressed">>>>
        ELSE IF word = <<116, 104, 101, 114, 101>> (* "there" *)
        THEN LET has_next == i < Len(d)
             IN  IF has_next /\ TokenTruthy(d[i + 1]) /\ d[i + 1].lemma = "be"
                    /\ d[i + 1].pos \in {"AUX", "VERB"}
                 THEN <<0, <<"existential", "there", "unstressed">>>>
                 ELSE <<1, <<"locative", "there", "stressed">>>>
        ELSE IF pos \in FunctionPos
        THEN <<0, <<"function", "word", "unstressed", PosLower(pos)>>>>
        ELSE IF pos \in ContentPos
        THEN <<1, <<"content", "word", "stressed", PosLower(pos)>>>>
        ELSE <<0, <<"default", "unstressed", PosLower(pos)>>>>

\* variant: PART counted as an open-class tag
AnalyzeMonoPartOpen(d, i) ==
    LET token == d[i]
        word == Lower(token.text)
        pos == token.pos
    IN  IF word = <<110, 111, 116>> (* "not" *) \/ EndsWith(token.text, <<110, 39, 116>> (* "n't" *))
        THEN <<1, <<"negation", "stressed">>>>
        ELSE IF word = <<116, 104, 101, 114, 101>> (* "there" *)
        THEN LET has_next == i < Len(d)
             IN  IF has_next /\ TokenTruthy(d[i + 1]) /\ d[i + 1].lemma = "be"
                    /\ d[i + 1].pos \in {"AUX", "VERB"}
                 THEN <<0, <<"existential", "there", "unstressed">>>>
                 ELSE <<1, <<"locative", "there", "stressed">>>>
        ELSE IF token.dep = "prt"
        THEN <<1, <<"phrasal", "verb", "particle", "stressed">>>>
        ELSE IF pos \in FunctionPos \ {"PART"}
        THEN <<0, <<"function", "word", "unstressed", PosLower(pos)>>>>
        ELSE IF pos \in ContentPos \cup {"PART"}
        THEN <<1, <<"content", "word", "stressed", PosLower(pos)>>>>
        ELSE <<0, <<"default", "unstressed", PosLower(pos)>>>>

\* variant: INTJ missing from the open-class tags
AnalyzeMonoNoInterjection(d, i) ==
    LET token == d[i]
        word == Lower(token.text)
        pos == token.pos
    IN  IF word = <<110, 111, 116>> (* "not" *) \/ EndsWith(token.text, <<110, 39, 116>> (* "n't" *))
        THEN <<1, <<"negation", "stressed">>>>
        ELSE IF word = <<116, 104, 101, 114, 101>> (* "there" *)
        THEN LET has_next == i < Len(d)
             IN  IF has_next /\ TokenTruthy(d[i + 1]) /\ d[i + 1].lemma = "be"
                    /\ d[i + 1].pos \in {"AUX", "VERB"}
                 THEN <<0, <<"existential", "there", "unstressed">>>>
                 ELSE <<1, <<"locative", "there", "stressed">>>>
        ELSE IF token.dep = "prt"
        THEN <<1, <<"phrasal", "verb", "particle", "stressed">>>>
        ELSE IF pos \in FunctionPos
        THEN <<0, <<"function", "word", "unstressed", PosLower(pos)>>>>
        ELSE IF pos \in ContentPos \ {"INTJ"}
        THEN <<1, <<"content", "word", "stressed", PosLower(pos)>>>>
        ELSE <<0, <<"default", "unstressed", PosLower(pos)>>>>

\* analyze_monosyllable_stress(token), token = d[i]; returns <<stress, reasoning>>
AnalyzeMonosyllableStress(d, i) ==
    LET token == d[i]
        word == Lower(token.text)
        pos == token.pos
    IN  IF word = <<110, 111, 116>> (* "not" *) \/ EndsWith(token.text, <<110, 39, 116>> (* "n't" *))
        THEN <<1, <<"negation", "stressed">>>>
        ELSE IF word = <<116, 104, 101, 114, 101>> (* "there" *)
        THEN LET has_next == i < Len(d)
             IN  IF has_next /\ TokenTruthy(d[i + 1]) /\ d[i + 1].lemma = "be"
                    /\ d[i + 1].pos \in {"AUX", "VERB"}
                 THEN <<0, <<"existential", "there", "unstressed">>>>
                 ELSE <<1, <<"locative", "there", "stressed">>>>
        ELSE IF token.dep = "prt"
        THEN <<1, <<"phrasal", "verb", "particle", "stressed">>>>
        ELSE IF pos \in FunctionPos
        THEN <<0, <<"function", "word", "unstressed", PosLower(pos)>>>>
        ELSE IF pos \in ContentPos
        THEN <<1, <<"content", "word", "stressed", PosLower(pos)>>>>
        ELSE <<0, <<"default", "unstressed", PosLower(pos)>>>>

(***************************************************************************)
(* Inputs of the classifier: every word text below under every tag, both   *)
(* dependency roles, alone or followed by any token of NextTokens.         *)
(***************************************************************************)
MonoTexts == {
    <<110, 111, 116>> (* "not" *), <<78, 111, 116>> (* "Not" *), <<110, 39, 116>> (* "n't" *), <<78, 39, 84>> (* "N'T" *),
    <<99, 97, 110, 39, 116>> (* "can't" *),
    <<116, 104, 101, 114, 101>> (* "there" *), <<84, 104, 101, 114, 101>> (* "There" *),
    <<117, 112>> (* "up" *), <<116, 104, 101>> (* "the" *), <<108, 111, 118, 101>> (* "love" *), <<104, 109, 109>> (* "hmm" *) }

DepRoles == {"prt", "nsubj"}

MonoTokens == {Tok(t, p, d, "x", FALSE) : t \in MonoTexts, p \in PosTags, d \in DepRoles}

NextTokens == {Tok(<<105, 115>> (* "is" *), p, "ROOT", l, FALSE) : p \in PosTags, l \in {"be", "go"}}
                 \cup {Tok(<<46>> (* "." *), "PUNCT", "punct", ".", TRUE)}

MonoDocs == {<<t>> : t \in MonoTokens} \cup {<<t, n>> : t \in MonoTokens, n \in NextTokens}

(***************************************************************************)
(* CMUDictionary: the source file and its load.                            *)
(***************************************************************************)
\* one line of the source file: WORD, two blanks, the phonemes
FileLine(word, phonemes) == word \o <<32, 32>> (* "  " *) \o JoinSpace(phonemes) \o <<10>> (* "\n" *)

\* the content of the dictionary source file, line by line
DictFile == <<
    <<59, 59, 59, 32, 99, 109, 117, 10>> (* ";;; cmu\n" *),
    <<10>> (* "\n" *),
    FileLine(<<84, 72, 69>> (* "THE" *), <<<<68, 72>> (* "DH" *), <<65, 72, 48>> (* "AH0" *)>>),
    FileLine(<<84, 72, 69, 40, 49, 41>> (* "THE(1)" *), <<<<68, 72>> (* "DH" *), <<73, 89, 48>> (* "IY0" *)>>),
    FileLine(<<84, 72, 69, 82, 69>> (* "THERE" *), <<<<68, 72>> (* "DH" *), <<69, 72, 49>> (* "EH1" *), <<82>> (* "R" *)>>),
    FileLine(<<78, 79, 84>> (* "NOT" *), <<<<78>> (* "N" *), <<65, 65, 49>> (* "AA1" *), <<84>> (* "T" *)>>),
    FileLine(<<76, 79, 86, 69>> (* "LOVE" *), <<<<76>> (* "L" *), <<65, 72, 49>> (* "AH1" *), <<86>> (* "V" *)>>),
    FileLine(<<73, 83>> (* "IS" *), <<<<73, 72, 49>> (* "IH1" *), <<90>> (* "Z" *)>>),
    FileLine(<<85, 80>> (* "UP" *), <<<<65, 72, 49>> (* "AH1" *), <<80>> (* "P" *)>>),
    FileLine(<<66, 65, 78, 65, 78, 65>> (* "BANANA" *),
             <<<<66>> (* "B" *), <<65, 72, 48>> (* "AH0" *), <<78>> (* "N" *), <<65, 69, 49>> (* "AE1" *), <<78>> (* "N" *), <<65, 72, 48>> (* "AH0" *)>>),
    FileLine(<<66, 79, 79, 75, 67, 65, 83, 69>> (* "BOOKCASE" *),
             <<<<66>> (* "B" *), <<85, 72, 49>> (* "UH1" *), <<75>> (* "K" *), <<75>> (* "K" *), <<69, 89, 50>> (* "EY2" *), <<83>> (* "S" *)>>),
    FileLine(<<84, 86>> (* "TV" *), <<<<84>> (* "T" *), <<73, 89, 49>> (* "IY1" *), <<86>> (* "V" *), <<73, 89, 49>> (* "IY1" *)>>),
    FileLine(<<70, 73, 82, 69>> (* "FIRE" *), <<<<70>> (* "F" *), <<65, 89, 49>> (* "AY1" *), <<69, 82>> (* "ER" *)>>),
    <<79, 82, 80, 72, 65, 78, 10>> (* "ORPHAN\n" *)
>>

\* _extract_stress_pattern(phonemes) raises ValueError: a phoneme ends with
\* a character that isdigit() takes and int() refuses
ExtractStressPatternRaises(phonemes) ==
    \E k \in 1..Len(phonemes) :
        /\ IsDigit(phonemes[k][Len(phonemes[k])])
        /\ IntRaises(phonemes[k][Len(phonemes[k])])

\* _extract_stress_pattern(phonemes) when it returns
RECURSIVE ExtractStressPattern(_)
ExtractStressPattern(phonemes) ==
    IF phonemes = <<>> THEN <<>>
    ELSE LET phoneme == Head(phonemes)
         IN  (IF IsDigit(phoneme[Len(phoneme)])
              THEN <<DigitValue(phoneme[Len(phoneme)])>>
              ELSE <<>>) \o ExtractStressPattern(Tail(phonemes))

\* word[start:end] of Python, 0-based and end-exclusive
Slice(word, start, end) ==
    SubSeq(word, start + 1, IF end < Len(word) THEN end ELSE Len(word))

\* _phonemes_to_syllables(word, phonemes); syllable_length = L / N is a
\* double and the bounds are int(i * syllable_length)
PhonemesToSyllables(word, phonemes) ==
    LET vowel_count == Len(SelectSeq(phonemes, LAMBDA q : IsDigit(q[Len(q)])))
        word_length == Len(word)
    IN  IF vowel_count <= 1 THEN <<word>>
        ELSE [k \in 1..vowel_count |->
                Slice(word,
                      IntOfProduct(k - 1, word_length, vowel_count),
                      IF k - 1 < vowel_count - 1
                      THEN IntOfProduct(k, word_length, vowel_count)
                      ELSE word_length)]

\* the StressPattern record _load_dictionary stores for one line
StressPatternEntry(word_key, phonemes) ==
    [word |-> word_key,
     syllables |-> PhonemesToSyllables(word_key, phonemes),
     stress_pattern |-> ExtractStressPattern(phonemes),
     phonemes |-> phonemes]

\* the line is one _load_dictionary parses: not blank, no comment, two
\* parts or more, no "(" in the first
IsEntryLine(raw_line) ==
    LET line == Strip(raw_line)
        parts == Split(line)
    IN  ~(line = <<>> \/ StartsWith(line, <<59, 59, 59>> (* ";;;" *)) \/ Len(parts) < 2
          \/ InSeq(40 (* "(" *), parts[1]))

\* the body of the loop raises ValueError on the line, which ends the load
\* and the constructor
LoadLineRaises(raw_line) ==
    IsEntryLine(raw_line) /\ ExtractStressPatternRaises(Tail(Split(Strip(raw_line))))

\* the body of the loop of _load_dictionary for one line of the file it
\* does not raise on, dict being self._dictionary before it: the
\* dictionary after it
LoadLine(raw_line, dict) ==
    LET line == Strip(raw_line)
        parts == Split(line)
    IN  IF line = <<>> \/ StartsWith(line, <<59, 59, 59>> (* ";;;" *)) \/ Len(parts) < 2
           \/ InSeq(40 (* "(" *), parts[1])
        THEN dict
        ELSE LET word_key == Lower(parts[1])
                 entry == StressPatternEntry(word_key, Tail(parts))
             IN  [k \in DOMAIN dict \cup {word_key} |->
                     IF k = word_key THEN entry ELSE dict[k]]

\* _load_dictionary: the loop over the lines of the file, dict being
\* self._dictionary so far
RECURSIVE LoadLines(_, _)
LoadLines(file, dict) ==
    IF file = <<>> THEN dict
    ELSE LoadLines(Tail(file), LoadLine(Head(file), dict))

\* self._dictionary after CMUDictionary.__init__
Dictionary == LoadLines(DictFile, <<>>)

\* variant: the word lower-cased but not trimmed
LookupNoStrip(word) ==
    LET word_key == Lower(word)
    IN  IF word_key \in DOMAIN Dictionary THEN Some(Dictionary[word_key]) ELSE None

\* CMUDictionary.lookup(word): Some(entry), or None
Lookup(word) ==
    LET word_key == Strip(Lower(word))
    IN  IF word_key \in DOMAIN Dictionary THEN Some(Dictionary[word_key]) ELSE None

(***************************************************************************)
(* The G2P predictor (g2p_en.G2p), a black box: the process holds one of   *)
(* the predictors of G2PModels; each maps a word to a list of symbols.     *)
(***************************************************************************)
G2PModels == {"g2p_a", "g2p_b"}

G2PPredict(g, word) ==
    LET w == Lower(word)
    IN  CASE w = <<104, 109, 109>> (* "hmm" *) ->
               IF g = "g2p_a" THEN <<<<72, 72>> (* "HH" *), <<77>> (* "M" *)>> ELSE <<>>
          [] w = <<53>> (* "5" *) ->
               IF g = "g2p_a" THEN <<<<70>> (* "F" *), <<65, 89, 49>> (* "AY1" *), <<86>> (* "V" *)>> ELSE <<<<32>> (* " " *)>>
          [] w = <<108, 97, 108, 97>> (* "lala" *) ->
               IF g = "g2p_a"
               THEN <<<<76>> (* "L" *), <<65, 65, 49>> (* "AA1" *), <<76>> (* "L" *), <<65, 72, 48>> (* "AH0" *)>>
               ELSE <<<<76>> (* "L" *), <<65, 65, 49>> (* "AA1" *), <<76>> (* "L" *), <<65, 65, 49>> (* "AA1" *), <<32>> (* " " *), <<65, 72, 50>> (* "AH2" *)>>
          [] w = <<115, 107, 114, 116>> (* "skrt" *) ->
               IF g = "g2p_a"
               THEN <<<<83>> (* "S" *), <<75>> (* "K" *), <<69, 82, 49>> (* "ER1" *), <<84>> (* "T" *)>>
               ELSE <<<<69, 72, 49>> (* "EH1" *), <<83>> (* "S" *), <<75>> (* "K" *), <<69, 82, 49>> (* "ER1" *), <<84>> (* "T" *), <<39>> (* "'" *)>>
          [] w = <<99, 97, 110, 39, 116>> (* "can't" *) -> <<<<75>> (* "K" *), <<65, 69, 49>> (* "AE1" *), <<78>> (* "N" *), <<84>> (* "T" *)>>
          [] OTHER -> <<>>

(***************************************************************************)
(* ComprehensiveStressAnalyzer: phonemes, stress digits, alignment.        *)
(***************************************************************************)
\* self.VOWELS
VOWELS == { <<65, 65>> (* "AA" *), <<65, 69>> (* "AE" *), <<65, 72>> (* "AH" *), <<65, 79>> (* "AO" *), <<65, 87>> (* "AW" *),
            <<65, 89>> (* "AY" *), <<69, 72>> (* "EH" *), <<69, 82>> (* "ER" *), <<69, 89>> (* "EY" *), <<73, 72>> (* "IH" *),
            <<73, 89>> (* "IY" *), <<79, 87>> (* "OW" *), <<79, 89>> (* "OY" *), <<85, 72>> (* "UH" *), <<85, 87>> (* "UW" *) }

\* length of the longest prefix of s made of upper-case letters ([A-Z]+, greedy)
RECURSIVE UpperRun(_)
UpperRun(s) == IF s # <<>> /\ IsUpper(Head(s)) THEN 1 + UpperRun(Tail(s)) ELSE 0

IsStressDigit(c) == c \in {48 (* "0" *), 49 (* "1" *), 50 (* "2" *)}

\* re.match(r"[A-Z]+[0-2]?$", p): letters, an optional digit 0-2, the end
\* (or a final newline)
MatchesArpabet(p) ==
    LET n == UpperRun(p)
        rest == SubSeq(p, n + 1, Len(p))
        tail == IF rest # <<>> /\ IsStressDigit(rest[1]) THEN Tail(rest) ELSE rest
    IN  n >= 1 /\ (tail = <<>> \/ tail = <<10>> (* "\n" *))

\* get_phonemes(word) for the predictor g (the lru_cache returns what the
\* body returns: the predictor is deterministic within a process)
GetPhonemes(g, word) ==
    LET cmu_result == Lookup(Lower(word))
    IN  IF cmu_result # None
        THEN JoinSpace(cmu_result[1].phonemes)
        ELSE JoinSpace(SelectSeq(G2PPredict(g, word), MatchesArpabet))

\* the loop of extract_stress_digits over phonemes_str.split()
RECURSIVE StressDigitsOf(_)
StressDigitsOf(phonemes) ==
    IF phonemes = <<>> THEN <<>>
    ELSE LET phoneme == Head(phonemes)
             n == UpperRun(phoneme)
             base == SubSeq(phoneme, 1, n)
             has_digit == Len(phoneme) > n /\ IsStressDigit(phoneme[n + 1])
         IN  (IF n >= 1 /\ base \in VOWELS
              THEN <<IF has_digit THEN DigitValue(phoneme[n + 1]) ELSE 0>>
              ELSE <<>>) \o StressDigitsOf(Tail(phonemes))

\* extract_stress_digits(phonemes_str)
ExtractStressDigits(phonemes_str) == StressDigitsOf(Split(phonemes_str))

IsOrthoVowel(c) == LowerChar(c) \in {<<97>> (* "a" *), <<101>> (* "e" *), <<105>> (* "i" *), <<111>> (* "o" *), <<117>> (* "u" *), <<121>> (* "y" *)}

\* the 0-based indices i >= k-1 of the vowel letters of word, ascending
RECURSIVE VowelPositionsFrom(_, _)
VowelPositionsFrom(word, k) ==
    IF k > Len(word) THEN <<>>
    ELSE (IF IsOrthoVowel(word[k]) THEN <<k - 1>> ELSE <<>>)
            \o VowelPositionsFrom(word, k + 1)

\* [i for i, char in enumerate(word) if char.lower() in "aeiouy"]
VowelPositions(word) == VowelPositionsFrom(word, 1)

\* vowel_positions after the while loop that appends vowel_positions[-1]
PadLast(vp, n) ==
    [k \in 1..(IF Len(vp) < n THEN n ELSE Len(vp)) |->
        IF k <= Len(vp) THEN vp[k] ELSE vp[Len(vp)]]

\* seq[:n]
Take(seq, n) == SubSeq(seq, 1, IF n < Len(seq) THEN n ELSE Len(seq))

\* variant: a word without vowel letters anchored at its first character
MapSyllablesToCharsPadEmpty(word, n_syllables) ==
    LET vp0 == VowelPositions(word)
    IN  IF vp0 = <<>> THEN [k \in 1..n_syllables |-> 0]
        ELSE IF Len(vp0) = n_syllables THEN vp0
        ELSE IF Len(vp0) > n_syllables
        THEN LET vp1 == IF EndsWith(word, <<101>> (* "e" *)) /\ Len(vp0) > 1
                        THEN SubSeq(vp0, 1, Len(vp0) - 1) ELSE vp0
             IN  IF Len(vp1) > n_syllables
                 THEN [k \in 1..n_syllables |->
                          vp1[IntOfProduct(k - 1, Len(vp1), n_syllables) + 1]]
                 ELSE Take(vp1, n_syllables)
        ELSE Take(PadLast(vp0, n_syllables), n_syllables)

\* variant: "y" not counted as a vowel letter
MapSyllablesToCharsNoY(word, n_syllables) ==
    LET vp0 == SelectSeq(VowelPositions(word), LAMBDA i : LowerChar(word[i + 1]) # <<121>> (* "y" *))
    IN  IF vp0 = <<>> THEN <<>>
        ELSE IF Len(vp0) = n_syllables THEN vp0
        ELSE IF Len(vp0) > n_syllables
        THEN LET vp1 == IF EndsWith(word, <<101>> (* "e" *)) /\ Len(vp0) > 1
                        THEN SubSeq(vp0, 1, Len(vp0) - 1) ELSE vp0
             IN  IF Len(vp1) > n_syllables
                 THEN [k \in 1..n_syllables |->
                          vp1[IntOfProduct(k - 1, Len(vp1), n_syllables) + 1]]
                 ELSE Take(vp1, n_syllables)
        ELSE Take(PadLast(vp0, n_syllables), n_syllables)

\* variant: too few vowel letters left as they are, without the padding loop
MapSyllablesToCharsNoPad(word, n_syllables) ==
    LET vp0 == VowelPositions(word)
    IN  IF vp0 = <<>> THEN <<>>
        ELSE IF Len(vp0) = n_syllables THEN vp0
        ELSE IF Len(vp0) > n_syllables
        THEN LET vp1 == IF EndsWith(word, <<101>> (* "e" *)) /\ Len(vp0) > 1
                        THEN SubSeq(vp0, 1, Len(vp0) - 1) ELSE vp0
             IN  IF Len(vp1) > n_syllables
                 THEN [k \in 1..n_syllables |->
                          vp1[IntOfProduct(k - 1, Len(vp1), n_syllables) + 1]]
                 ELSE Take(vp1, n_syllables)
        ELSE Take(vp0, n_syllables)

\* variant: the proportional step taken from the upper end of each span
MapSyllablesToCharsCeil(word, n_syllables) ==
    LET vp0 == VowelPositions(word)
    IN  IF vp0 = <<>> THEN <<>>
        ELSE IF Len(vp0) = n_syllables THEN vp0
        ELSE IF Len(vp0) > n_syllables
        THEN LET vp1 == IF EndsWith(word, <<101>> (* "e" *)) /\ Len(vp0) > 1
                        THEN SubSeq(vp0, 1, Len(vp0) - 1) ELSE vp0
             IN  IF Len(vp1) > n_syllables
                 THEN [k \in 1..n_syllables |->
                          vp1[((k - 1) * Len(vp1) + n_syllables - 1)
                                 \div n_syllables + 1]]
                 ELSE Take(vp1, n_syllables)
        ELSE Take(PadLast(vp0, n_syllables), n_syllables)

\* map_syllables_to_chars(word, n_syllables); step = len / n is a double and
\* the index is int(i * step)
MapSyllablesToChars(word, n_syllables) ==
    LET vp0 == VowelPositions(word)
    IN  IF vp0 = <<>> THEN <<>>
        ELSE IF Len(vp0) = n_syllables THEN vp0
        ELSE IF Len(vp0) > n_syllables
        THEN LET vp1 == IF EndsWith(word, <<101>> (* "e" *)) /\ Len(vp0) > 1
                        THEN SubSeq(vp0, 1, Len(vp0) - 1) ELSE vp0
             IN  IF Len(vp1) > n_syllables
                 THEN [k \in 1..n_syllables |->
                          vp1[IntOfProduct(k - 1, Len(vp1), n_syllables) + 1]]
                 ELSE Take(vp1, n_syllables)
        ELSE Take(PadLast(vp0, n_syllables), n_syllables)

Min(a, b) == IF a < b THEN a ELSE b

\* the first branch of _approximate_syllables: syllables after the loop has
\* run for i = 0 .. upto-1 (vp are the vowel positions, 0-based)
RECURSIVE ApproxLoop(_, _, _, _)
ApproxLoop(word, vp, n_syllables, upto) ==
    IF upto = 0 THEN <<>>
    ELSE LET syllables == ApproxLoop(word, vp, n_syllables, upto - 1)
             i == upto - 1
             prev_split == Len(Concat(syllables))
         IN  IF i = 0
             THEN IF Len(vp) > 1
                  THEN <<Slice(word, 0, Min(vp[2], (vp[1] + vp[2]) \div 2 + 1))>>
                  ELSE <<word>>
             ELSE IF i = n_syllables - 1
             THEN Append(syllables, Slice(word, prev_split, Len(word)))
             ELSE LET next_vowel_idx == Min(i + 1, Len(vp) - 1)
                      split_point == Min(vp[next_vowel_idx + 1],
                                         (vp[i + 1] + vp[next_vowel_idx + 1]) \div 2 + 1)
                  IN  Append(syllables, Slice(word, prev_split, split_point))

\* _approximate_syllables(word, n_syllables)
ApproximateSyllables(word, n_syllables) ==
    LET vp == VowelPositions(Lower(word))
    IN  IF n_syllables <= 1 THEN <<word>>
        ELSE IF Len(vp) >= n_syllables
        THEN SelectSeq(ApproxLoop(word, vp, n_syllables, n_syllables),
                       LAMBDA x : x # <<>>)
        ELSE [k \in 1..n_syllables |->
                Slice(word,
                      IntOfProduct(k - 1, Len(word), n_syllables),
                      IF k - 1 < n_syllables - 1
                      THEN IntOfProduct(k, Len(word), n_syllables)
                      ELSE Len(word))]

(***************************************************************************)
(* analyze_text: the body of the loop over the tokens.                     *)
(***************************************************************************)
\* the test that skips punctuation and whitespace tokens
Skipped(token) == Strip(token.text) = <<>> \/ token.is_punct

\* variant: 0.95 for every word the dictionary holds
ConfidenceOfDictionaryHit(reasoning, word) ==
    IF Lookup(Lower(word)) # None THEN "0.95" ELSE "0.8"

\* 0.95 if reasoning.startswith("cmu_") else 0.8
ConfidenceOf(reasoning, word) ==
    IF ReasonStartsWith(reasoning, <<"cmu">>) THEN "0.95" ELSE "0.8"

\* the WordAnalysis the loop body builds from the token, the stress digits
\* of its phonemes, the monosyllable classification and the dictionary entry
WordAnalysisOf(token, digits, mono, cmu_result) ==
    LET word == token.text
        n_syllables == IF digits # <<>> THEN Len(digits) ELSE 1
        stress_pattern ==
            IF n_syllables = 1 THEN <<mono[1]>>
            ELSE IF digits # <<>> THEN digits
            ELSE <<1>>
        syllables ==
            IF n_syllables = 1 THEN <<word>>
            ELSE IF digits # <<>>
            THEN IF cmu_result # None
                 THEN cmu_result[1].syllables
                 ELSE ApproximateSyllables(word, n_syllables)
            ELSE <<word>>
        reasoning ==
            IF n_syllables = 1 THEN mono[2]
            ELSE IF digits # <<>>
            THEN IF cmu_result # None
                 THEN <<"cmu", "dictionary", "multisyllable">>
                 ELSE <<"g2p", "fallback", "multisyllable">>
            ELSE <<"fallback", "single", "stressed">>
    IN  [word |-> word,
         pos |-> token.pos,
         syllables |-> syllables,
         stress_pattern |-> stress_pattern,
         reasoning |-> reasoning,
         char_positions |-> MapSyllablesToChars(word, Len(stress_pattern)),
         confidence |-> ConfidenceOf(reasoning, word)]

\* the loop body of analyze_text for token d[i] (not skipped)
AnalyzeToken(g, d, i) ==
    WordAnalysisOf(d[i],
                   ExtractStressDigits(GetPhonemes(g, d[i].text)),
                   AnalyzeMonosyllableStress(d, i),
                   Lookup(Lower(d[i].text)))

\* variant: only primary stress counted
CountPrimaryOnly(stress_pattern) == Len(SelectSeq(stress_pattern, LAMBDA x : x = 1))

\* sum(1 for s in stress_pattern if s > 0)
CountStressed(stress_pattern) == Len(SelectSeq(stress_pattern, LAMBDA x : x > 0))

\* stress_sequence as _apply_prosodic_smoothing builds it from word_analyses
StressSequenceOf(analyses) == Concat([k \in 1..Len(analyses) |-> analyses[k].stress_pattern])

\* word_analyses after the loop of analyze_text has run over d[1..upto]
RECURSIVE AnalysesUpTo(_, _, _)
AnalysesUpTo(g, d, upto) ==
    IF upto = 0 THEN <<>>
    ELSE IF Skipped(d[upto]) THEN AnalysesUpTo(g, d, upto - 1)
    ELSE Append(AnalysesUpTo(g, d, upto - 1), AnalyzeToken(g, d, upto))

\* the StressAnalysisResult analyze_text returns for the analyses words
ResultOf(words) ==
    [words |-> words,
     total_syllables |-> SumSeq([k \in 1..Len(words) |-> Len(words[k].stress_pattern)]),
     stressed_syllables |->
         SumSeq([k \in 1..Len(words) |-> CountStressed(words[k].stress_pattern)])]

\* analyze_text(text) for the token stream d of the text: the returned
\* StressAnalysisResult (the smoothing pass changes none of its fields)
AnalyzeText(g, d) == ResultOf(AnalysesUpTo(g, d, Len(d)))

(***************************************************************************)
(* Token streams analyze_text is run on.                                   *)
(***************************************************************************)
\* "Bookcase" written with the Kelvin sign U+212A, whose lower case is "k"
KelvinBookcase == <<66, 111, 111>> (* "Boo" *) \o <<8490>> \o <<99, 97, 115, 101>> (* "case" *)

PipeTokens == {
    Tok(<<108, 111, 118, 101>> (* "love" *), "NOUN", "nsubj", "love", FALSE),
    Tok(<<116, 104, 101>> (* "the" *), "DET", "det", "the", FALSE),
    Tok(<<98, 97, 110, 97, 110, 97>> (* "banana" *), "NOUN", "nsubj", "banana", FALSE),
    Tok(KelvinBookcase, "NOUN", "nsubj", "bookcase", FALSE),
    Tok(<<84, 86>> (* "TV" *), "NOUN", "nsubj", "tv", FALSE),
    Tok(<<102, 105, 114, 101>> (* "fire" *), "NOUN", "nsubj", "fire", FALSE),
    Tok(<<104, 109, 109>> (* "hmm" *), "INTJ", "intj", "hmm", FALSE),
    Tok(<<53>> (* "5" *), "NUM", "nummod", "5", FALSE),
    Tok(<<108, 97, 108, 97>> (* "lala" *), "NOUN", "nsubj", "lala", FALSE),
    Tok(<<115, 107, 114, 116>> (* "skrt" *), "VERB", "ROOT", "skrt", FALSE),
    Tok(<<44>> (* "," *), "PUNCT", "punct", ",", TRUE),
    Tok(<<32>> (* " " *), "SPACE", "dep", " ", FALSE) }

Docs == SeqsUpTo(PipeTokens, 1, MaxTokens)

(***************************************************************************)
(* Values the variables of the operations that are not running hold.       *)
(***************************************************************************)
IdleAnalyze ==
    /\ doc = <<>> /\ g2p = "g2p_a" /\ idx = 0 /\ word_analyses = <<>>
    /\ total_syllables = 0 /\ stressed_syllables = 0
    /\ stress_sequence = <<>> /\ scan_i = 0
IdleMono == mono_result = None
IdleBatch == lines = <<>> /\ line_number = 0 /\ results = <<>> /\ status = 0
IdleCtx == ctx_word = <<>> /\ ctx_context = <<>> /\ ctx_result = None

analyzeVars == <<doc, g2p, idx, word_analyses, total_syllables, stressed_syllables,
                 stress_sequence, scan_i>>
batchVars == <<lines, line_number, results, status>>
ctxVars == <<ctx_word, ctx_context, ctx_result>>

IdleAlign == al_word = <<>> /\ al_n = 0 /\ al_result = None
alignVars == <<al_word, al_n, al_result>>

IdleLoad ==
    /\ dict_file = None /\ self_dictionary = <<>> /\ load_i = 0 /\ cmu_dict = None
    /\ calls = 0 /\ loads = 0 /\ outcome = ""
loadVars == <<dict_file, self_dictionary, load_i, cmu_dict, calls, loads, outcome>>

IdleCache ==
    /\ lookup_cache = <<>> /\ ph_cache = <<>> /\ g2p_calls = <<>>
    /\ last_call = None /\ n_ops = 0
cacheVars == <<lookup_cache, ph_cache, g2p_calls, last_call, n_ops>>

IdleRace ==
    /\ threads = <<>> /\ g_cmu_dict = None /\ g_stress_analyzer = None
    /\ dict_loads = 0 /\ analyzer_inits = 0
raceVars == <<threads, g_cmu_dict, g_stress_analyzer, dict_loads, analyzer_inits>>

IdleSongs ==
    /\ supabase = None /\ songs_table = <<>> /\ song_versions = <<>> /\ requests = <<>>
    /\ song_calls = 0
songVars == <<supabase, songs_table, song_versions, requests, song_calls>>

IdleRest == IdleRace /\ IdleSongs
restVars == <<raceVars, songVars>>

\* the variables of the operations modelled further below
IdleLater == IdleAlign /\ IdleLoad /\ IdleCache /\ IdleRest
laterVars == <<alignVars, loadVars, cacheVars, restVars>>

(***************************************************************************)
(* analyze_text as a state machine: one step per token of the loop, then   *)
(* the smoothing pass when more than two words were analysed, then return. *)
(***************************************************************************)
Init ==
    /\ pc = "loop"
    /\ doc \in Docs
    /\ g2p \in G2PModels
    /\ idx = 1
    /\ word_analyses = <<>>
    /\ total_syllables = 0
    /\ stressed_syllables = 0
    /\ stress_sequence = <<>>
    /\ scan_i = 0
    /\ IdleMono /\ IdleBatch /\ IdleCtx /\ IdleLater

\* for token in doc: ... continue
SkipToken ==
    /\ pc = "loop" /\ idx <= Len(doc)
    /\ Skipped(doc[idx])
    /\ idx' = idx + 1
    /\ UNCHANGED <<laterVars, pc, doc, g2p, word_analyses, total_syllables, stressed_syllables,
                   stress_sequence, scan_i, mono_result, batchVars, ctxVars>>

\* word_analyses.append(analysis) and the update of the two totals
AppendAnalysis(analysis) ==
    /\ word_analyses' = Append(word_analyses, analysis)
    /\ total_syllables' = total_syllables + Len(analysis.stress_pattern)
    /\ stressed_syllables' = stressed_syllables + CountStressed(analysis.stress_pattern)

\* for token in doc: the body of the loop for a token that is not skipped
ProcessToken ==
    /\ pc = "loop" /\ idx <= Len(doc)
    /\ ~Skipped(doc[idx])
    /\ AppendAnalysis(AnalyzeToken(g2p, doc, idx))
    /\ idx' = idx + 1
    /\ UNCHANGED <<laterVars, pc, doc, g2p, stress_sequence, scan_i, mono_result, batchVars, ctxVars>>

\* if len(word_analyses) > 2: enter _apply_prosodic_smoothing, which builds
\* its local stress_sequence and sets i = 0
SmoothStart ==
    /\ pc = "loop" /\ idx > Len(doc)
    /\ Len(word_analyses) > 2
    /\ stress_sequence' = StressSequenceOf(word_analyses)
    /\ scan_i' = 0
    /\ pc' = "smooth"
    /\ UNCHANGED <<laterVars, doc, g2p, idx, word_analyses, total_syllables, stressed_syllables,
                   mono_result, batchVars, ctxVars>>

\* variant: the scan slides by one position after a cluster too
SmoothStepSliding ==
    /\ pc = "smooth" /\ scan_i < Len(stress_sequence) - 2
    /\ IF /\ stress_sequence[scan_i + 1] > 0
          /\ stress_sequence[scan_i + 2] > 0
          /\ stress_sequence[scan_i + 3] > 0
       THEN /\ stress_sequence' =
                  IF stress_sequence[scan_i + 2] = 1
                  THEN [stress_sequence EXCEPT ![scan_i + 2] = 0]
                  ELSE stress_sequence
            /\ scan_i' = scan_i + 1
       ELSE /\ scan_i' = scan_i + 1
            /\ UNCHANGED stress_sequence
    /\ UNCHANGED <<laterVars, pc, doc, g2p, idx, word_analyses, total_syllables, stressed_syllables,
                   mono_result, batchVars, ctxVars>>

\* one iteration of "while i < len(stress_sequence) - 2"
SmoothStep ==
    /\ pc = "smooth" /\ scan_i < Len(stress_sequence) - 2
    /\ IF /\ stress_sequence[scan_i + 1] > 0
          /\ stress_sequence[scan_i + 2] > 0
          /\ stress_sequence[scan_i + 3] > 0
       THEN /\ stress_sequence' =
                  IF stress_sequence[scan_i + 2] = 1
                  THEN [stress_sequence EXCEPT ![scan_i + 2] = 0]
                  ELSE stress_sequence
            /\ scan_i' = scan_i + 3
       ELSE /\ scan_i' = scan_i + 1
            /\ UNCHANGED stress_sequence
    /\ UNCHANGED <<laterVars, pc, doc, g2p, idx, word_analyses, total_syllables, stressed_syllables,
                   mono_result, batchVars, ctxVars>>

\* the while loop ends; _apply_prosodic_smoothing returns without writing
\* stress_sequence back, and analyze_text returns its StressAnalysisResult
SmoothReturn ==
    /\ pc = "smooth" /\ ~(scan_i < Len(stress_sequence) - 2)
    /\ pc' = "done"
    /\ UNCHANGED <<laterVars, analyzeVars, mono_result, batchVars, ctxVars>>

\* len(word_analyses) <= 2: analyze_text returns without smoothing
ReturnUnsmoothed ==
    /\ pc = "loop" /\ idx > Len(doc)
    /\ ~(Len(word_analyses) > 2)
    /\ pc' = "done"
    /\ UNCHANGED <<laterVars, analyzeVars, mono_result, batchVars, ctxVars>>

Next ==
    \/ SkipToken
    \/ ProcessToken
    \/ SmoothStart
    \/ SmoothStep
    \/ SmoothReturn
    \/ ReturnUnsmoothed

Spec == Init /\ [][Next]_vars

\* analyze_text on the texts of MaxTokens tokens drawn from four; it runs in
\* one thread and is not suspended for ever: once in the smoothing scan, a
\* step of the scan that can be taken is taken
SmoothTokens == {
    Tok(<<108, 111, 118, 101>> (* "love" *), "NOUN", "nsubj", "love", FALSE),
    Tok(<<116, 104, 101>> (* "the" *), "DET", "det", "the", FALSE),
    Tok(<<84, 86>> (* "TV" *), "NOUN", "nsubj", "tv", FALSE),
    Tok(<<44>> (* "," *), "PUNCT", "punct", ",", TRUE) }

InitSmooth ==
    /\ pc = "loop"
    /\ doc \in [1..MaxTokens -> SmoothTokens]
    /\ g2p \in G2PModels
    /\ idx = 1
    /\ word_analyses = <<>>
    /\ total_syllables = 0
    /\ stressed_syllables = 0
    /\ stress_sequence = <<>>
    /\ scan_i = 0
    /\ IdleMono /\ IdleBatch /\ IdleCtx /\ IdleLater

SpecSmooth == InitSmooth /\ [][Next]_vars /\ WF_vars(SmoothStep \/ SmoothReturn)

\* the StressAnalysisResult analyze_text has returned (pc = "done")
Returned ==
    [words |-> word_analyses,
     total_syllables |-> total_syllables,
     stressed_syllables |-> stressed_syllables]

(***************************************************************************)
(* Regular expressions of analyze_contextual_stress.  A pattern is the     *)
(* sequence of its elements; positions are the number of characters to     *)
(* the left (0 .. Len(s)).  EndsOf gives every position at which a match   *)
(* of the elements k.. that starts at position p can end, so alternation   *)
(* and the greedy \s+ and \s* backtrack as in the re module.               *)
(***************************************************************************)
Lit(chars) == [t |-> "lit", alts |-> {chars}]
Alt(words) == [t |-> "lit", alts |-> words]
Class(cs) == [t |-> "lit", alts |-> {<<c>> : c \in cs}]
SpacePlus == [t |-> "space", min |-> 1]
SpaceStar == [t |-> "space", min |-> 0]
WordBoundary == [t |-> "b"]
LineStart == [t |-> "bol"]

\* is there a \b at position p of s
AtWordBoundary(s, p) ==
    LET before == p >= 1 /\ IsWordChar(s[p])
        after == p < Len(s) /\ IsWordChar(s[p + 1])
    IN  before # after

\* the positions q >= p such that s[p+1..q] is all whitespace
SpaceEnds(s, p) == {q \in p..Len(s) : \A k \in (p + 1)..q : IsSpace(s[k])}

RECURSIVE EndsOf(_, _, _, _)
EndsOf(re, k, s, p) ==
    IF k > Len(re) THEN {p}
    ELSE LET e == re[k]
         IN  CASE e.t = "lit" ->
                    UNION {EndsOf(re, k + 1, s, p + Len(a)) :
                             a \in {x \in e.alts : /\ p + Len(x) <= Len(s)
                                                   /\ SubSeq(s, p + 1, p + Len(x)) = x}}
               [] e.t = "space" ->
                    UNION {EndsOf(re, k + 1, s, q) :
                             q \in {x \in SpaceEnds(s, p) : x - p >= e.min}}
               [] e.t = "b" ->
                    IF AtWordBoundary(s, p) THEN EndsOf(re, k + 1, s, p) ELSE {}
               [] e.t = "bol" ->
                    IF p = 0 THEN EndsOf(re, k + 1, s, p) ELSE {}

\* re.search(pattern, s) is not None
Search(re, s) == \E p \in 0..Len(s) : EndsOf(re, 1, s, p) # {}

\* (?:over|right|up|down|out)
AltLocative ==
    Alt({
        <<111, 118, 101, 114>> (* "over" *), <<114, 105, 103, 104, 116>> (* "right" *), <<117, 112>> (* "up" *), <<100, 111, 119, 110>> (* "down" *),
        <<111, 117, 116>> (* "out" *) })

\* (?:it|he|she|they|are|is|was|were)
AltPronounOrBe ==
    Alt({
        <<105, 116>> (* "it" *), <<104, 101>> (* "he" *), <<115, 104, 101>> (* "she" *), <<116, 104, 101, 121>> (* "they" *), <<97, 114, 101>> (* "are" *),
        <<105, 115>> (* "is" *), <<119, 97, 115>> (* "was" *), <<119, 101, 114, 101>> (* "were" *) })

\* (?:the|a|an|my|your|his|her|our|their)
AltDeterminer ==
    Alt({
        <<116, 104, 101>> (* "the" *), <<97>> (* "a" *), <<97, 110>> (* "an" *), <<109, 121>> (* "my" *), <<121, 111, 117, 114>> (* "your" *),
        <<104, 105, 115>> (* "his" *), <<104, 101, 114>> (* "her" *), <<111, 117, 114>> (* "our" *), <<116, 104, 101, 105, 114>> (* "their" *) })

\* (?:is|are|was|were|will|would|could|should|might|may)
AltBeOrModal ==
    Alt({
        <<105, 115>> (* "is" *), <<97, 114, 101>> (* "are" *), <<119, 97, 115>> (* "was" *), <<119, 101, 114, 101>> (* "were" *),
        <<119, 105, 108, 108>> (* "will" *), <<119, 111, 117, 108, 100>> (* "would" *), <<99, 111, 117, 108, 100>> (* "could" *),
        <<115, 104, 111, 117, 108, 100>> (* "should" *), <<109, 105, 103, 104, 116>> (* "might" *), <<109, 97, 121>> (* "may" *) })

\* (?:a|an|some|many|few|several|no)
AltQuantifier ==
    Alt({
        <<97>> (* "a" *), <<97, 110>> (* "an" *), <<115, 111, 109, 101>> (* "some" *), <<109, 97, 110, 121>> (* "many" *), <<102, 101, 119>> (* "few" *),
        <<115, 101, 118, 101, 114, 97, 108>> (* "several" *), <<110, 111>> (* "no" *) })

\* (?:is|are|was|were|do|does|did|will|would|can|could)
AltQuestionAux ==
    Alt({
        <<105, 115>> (* "is" *), <<97, 114, 101>> (* "are" *), <<119, 97, 115>> (* "was" *), <<119, 101, 114, 101>> (* "were" *), <<100, 111>> (* "do" *),
        <<100, 111, 101, 115>> (* "does" *), <<100, 105, 100>> (* "did" *), <<119, 105, 108, 108>> (* "will" *),
        <<119, 111, 117, 108, 100>> (* "would" *), <<99, 97, 110>> (* "can" *), <<99, 111, 117, 108, 100>> (* "could" *) })

\* (?:much|many|long|far|often)
AltHowMuch ==
    Alt({
        <<109, 117, 99, 104>> (* "much" *), <<109, 97, 110, 121>> (* "many" *), <<108, 111, 110, 103>> (* "long" *), <<102, 97, 114>> (* "far" *),
        <<111, 102, 116, 101, 110>> (* "often" *) })

\* the keys of contextual_patterns
ContextualWords == {<<116, 104, 101, 114, 101>> (* "there" *), <<104, 101, 114, 101>> (* "here" *), <<119, 104, 101, 114, 101>> (* "where" *), <<119, 104, 101, 110>> (* "when" *), <<119, 104, 97, 116>> (* "what" *), <<104, 111, 119>> (* "how" *), <<119, 104, 121>> (* "why" *)}

\* contextual_patterns[word_lower]: the stressed and the unstressed pattern lists
ContextualPatterns(word_lower) ==
    CASE word_lower = <<116, 104, 101, 114, 101>> (* "there" *) ->
        [stressed_patterns |-> <<
            <<WordBoundary, AltLocative, SpacePlus, Lit(<<116, 104, 101, 114, 101>> (* "there" *)), WordBoundary>>,
            <<WordBoundary, Lit(<<116, 104, 101, 114, 101>> (* "there" *)), SpacePlus, AltPronounOrBe,
              WordBoundary>>,
            <<WordBoundary, Lit(<<116, 104, 101, 114, 101, 39, 115>> (* "there's" *)), SpacePlus, AltDeterminer,
              WordBoundary>>,
            <<WordBoundary, Lit(<<116, 104, 101, 114, 101>> (* "there" *)), SpaceStar, Lit(<<44>> (* "," *)), SpaceStar,
              Lit(<<116, 104, 101, 114, 101>> (* "there" *)), WordBoundary>>,
            <<WordBoundary, Lit(<<116, 104, 101, 114, 101>> (* "there" *)), SpacePlus, Lit(<<121, 111, 117>> (* "you" *)),
              SpacePlus, Lit(<<103, 111>> (* "go" *)), WordBoundary>> >>,
         unstressed_patterns |-> <<
            <<LineStart, Lit(<<116, 104, 101, 114, 101>> (* "there" *)), SpacePlus, AltBeOrModal, WordBoundary>>,
            <<Class({46 (* "." *), 33 (* "!" *), 63 (* "?" *)}), SpacePlus, Lit(<<116, 104, 101, 114, 101>> (* "there" *)), SpacePlus,
              AltBeOrModal, WordBoundary>>,
            <<WordBoundary, Lit(<<116, 104, 101, 114, 101>> (* "there" *)), SpacePlus,
              Alt({<<105, 115>> (* "is" *), <<97, 114, 101>> (* "are" *), <<119, 97, 115>> (* "was" *), <<119, 101, 114, 101>> (* "were" *)}),
              SpacePlus, AltQuantifier, WordBoundary>> >>]
      [] word_lower = <<104, 101, 114, 101>> (* "here" *) ->
        [stressed_patterns |-> <<
            <<WordBoundary, AltLocative, SpacePlus, Lit(<<104, 101, 114, 101>> (* "here" *)), WordBoundary>>,
            <<WordBoundary, Lit(<<104, 101, 114, 101>> (* "here" *)), SpacePlus, AltPronounOrBe, WordBoundary>>,
            <<WordBoundary, Lit(<<99, 111, 109, 101>> (* "come" *)), SpacePlus, Lit(<<104, 101, 114, 101>> (* "here" *)),
              WordBoundary>>,
            <<WordBoundary, Lit(<<104, 101, 114, 101>> (* "here" *)), SpacePlus, Lit(<<121, 111, 117>> (* "you" *)),
              SpacePlus, Lit(<<103, 111>> (* "go" *)), WordBoundary>> >>,
         unstressed_patterns |-> <<
            <<WordBoundary, Lit(<<104, 101, 114, 101>> (* "here" *)), SpacePlus, Lit(<<97, 110, 100>> (* "and" *)),
              SpacePlus, Lit(<<116, 104, 101, 114, 101>> (* "there" *)), WordBoundary>> >>]
      [] word_lower = <<119, 104, 101, 114, 101>> (* "where" *) ->
        [stressed_patterns |-> <<
            <<WordBoundary, Lit(<<119, 104, 101, 114, 101>> (* "where" *)), SpacePlus, AltQuestionAux,
              WordBoundary>>,
            <<WordBoundary, Lit(<<119, 104, 101, 114, 101>> (* "where" *)), SpacePlus, Lit(<<121, 111, 117>> (* "you" *)),
              WordBoundary>> >>,
         unstressed_patterns |-> <<>>]
      [] word_lower = <<119, 104, 101, 110>> (* "when" *) ->
        [stressed_patterns |-> <<
            <<WordBoundary, Lit(<<119, 104, 101, 110>> (* "when" *)), SpacePlus, AltQuestionAux, WordBoundary>>,
            <<WordBoundary, Lit(<<119, 104, 101, 110>> (* "when" *)), SpacePlus, Lit(<<121, 111, 117>> (* "you" *)),
              WordBoundary>> >>,
         unstressed_patterns |-> <<>>]
      [] word_lower = <<119, 104, 97, 116>> (* "what" *) ->
        [stressed_patterns |-> <<
            <<WordBoundary, Lit(<<119, 104, 97, 116>> (* "what" *)), SpacePlus, AltQuestionAux, WordBoundary>>,
            <<WordBoundary, Lit(<<119, 104, 97, 116>> (* "what" *)), SpacePlus,
              Alt({<<97>> (* "a" *), <<97, 110>> (* "an" *), <<116, 104, 101>> (* "the" *)}), WordBoundary>> >>,
         unstressed_patterns |-> <<>>]
      [] word_lower = <<104, 111, 119>> (* "how" *) ->
        [stressed_patterns |-> <<
            <<WordBoundary, Lit(<<104, 111, 119>> (* "how" *)), SpacePlus, AltQuestionAux, WordBoundary>>,
            <<WordBoundary, Lit(<<104, 111, 119>> (* "how" *)), SpacePlus, AltHowMuch, WordBoundary>> >>,
         unstressed_patterns |-> <<>>]
      [] word_lower = <<119, 104, 121>> (* "why" *) ->
        [stressed_patterns |-> <<
            <<WordBoundary, Lit(<<119, 104, 121>> (* "why" *)), SpacePlus, AltQuestionAux, WordBoundary>>,
            <<WordBoundary, Lit(<<119, 104, 121>> (* "why" *)), SpacePlus, Lit(<<110, 111, 116>> (* "not" *)),
              WordBoundary>> >>,
         unstressed_patterns |-> <<>>]

\* variant: the stressed patterns tried before the unstressed ones
AnalyzeContextualStressedFirst(word, context, position) ==
    LET word_lower == Strip(Lower(word))
        context_lower == Lower(context)
    IN  IF word_lower \notin ContextualWords THEN None
        ELSE LET patterns == ContextualPatterns(word_lower)
                 un == patterns.unstressed_patterns
                 st == patterns.stressed_patterns
             IN  IF \E k \in 1..Len(st) : Search(st[k], context_lower)
                 THEN Some(TRUE)
                 ELSE IF \E k \in 1..Len(un) : Search(un[k], context_lower)
                 THEN Some(FALSE)
                 ELSE Some(TRUE)

\* variant: the word lower-cased but not trimmed
AnalyzeContextualNoStrip(word, context, position) ==
    LET word_lower == Lower(word)
        context_lower == Lower(context)
    IN  IF word_lower \notin ContextualWords THEN None
        ELSE LET patterns == ContextualPatterns(word_lower)
                 un == patterns.unstressed_patterns
                 st == patterns.stressed_patterns
             IN  IF \E k \in 1..Len(un) : Search(un[k], context_lower)
                 THEN Some(FALSE)
                 ELSE IF \E k \in 1..Len(st) : Search(st[k], context_lower)
                 THEN Some(TRUE)
                 ELSE Some(TRUE)

\* analyze_contextual_stress(word, context, position): Some(TRUE) stressed,
\* Some(FALSE) unstressed, None when word is not a contextual word
AnalyzeContextualStress(word, context, position) ==
    LET word_lower == Strip(Lower(word))
        context_lower == Lower(context)
    IN  IF word_lower \notin ContextualWords THEN None
        ELSE LET patterns == ContextualPatterns(word_lower)
                 un == patterns.unstressed_patterns
                 st == patterns.stressed_patterns
             IN  IF \E k \in 1..Len(un) : Search(un[k], context_lower)
                 THEN Some(FALSE)
                 ELSE IF \E k \in 1..Len(st) : Search(st[k], context_lower)
                 THEN Some(TRUE)
                 ELSE Some(TRUE)

(***************************************************************************)
(* analyze_monosyllable_stress on its own: any token of MonoTokens, alone  *)
(* or followed by any token of NextTokens.                                 *)
(***************************************************************************)
InitMono ==
    /\ pc = "mono"
    /\ doc \in MonoDocs
    /\ idx = 1
    /\ g2p = "g2p_a" /\ word_analyses = <<>> /\ total_syllables = 0
    /\ stressed_syllables = 0 /\ stress_sequence = <<>> /\ scan_i = 0
    /\ IdleMono /\ IdleBatch /\ IdleCtx /\ IdleLater

ClassifyMono ==
    /\ pc = "mono"
    /\ mono_result' = AnalyzeMonosyllableStress(doc, idx)
    /\ pc' = "mono_done"
    /\ UNCHANGED <<laterVars, analyzeVars, batchVars, ctxVars>>

NextMono == ClassifyMono

SpecMono == InitMono /\ [][NextMono]_vars

(***************************************************************************)
(* analyze_contextual_stress on its own.                                   *)
(***************************************************************************)
CtxVocab == {
    <<84, 104, 101, 114, 101>> (* "There" *), <<105, 115>> (* "is" *), <<97>> (* "a" *), <<104, 111, 117, 115, 101>> (* "house" *),
    <<111, 118, 101, 114>> (* "over" *), <<104, 101, 114, 101>> (* "here" *), <<97, 110, 100>> (* "and" *), <<46>> (* "." *) }

\* the two contexts of the documented examples, and "there is a" after a
\* Greek alpha U+03B1, a word character with no boundary before "there"
ExampleContexts == {
    <<945>> \o <<116, 104, 101, 114, 101, 32, 105, 115, 32, 97>> (* "there is a" *),
    JoinSpace(<<<<84, 104, 101, 114, 101>> (* "There" *), <<105, 115>> (* "is" *), <<97>> (* "a" *), <<104, 111, 117, 115, 101>> (* "house" *)>>),
    JoinSpace(<<<<73>> (* "I" *), <<108, 111, 118, 101>> (* "love" *), <<105, 116>> (* "it" *), <<111, 118, 101, 114>> (* "over" *),
                <<116, 104, 101, 114, 101>> (* "there" *)>>) }

\* the contexts: up to MaxCtxWords items of CtxVocab separated by one blank
Contexts == {JoinSpace(ws) : ws \in SeqsUpTo(CtxVocab, 1, MaxCtxWords)} \cup ExampleContexts

CtxWords == ContextualWords \cup { <<32, 84, 104, 101, 114, 101, 32>> (* " There " *), <<104, 111, 117, 115, 101>> (* "house" *) }

InitCtx ==
    /\ pc = "ctx"
    /\ ctx_word \in CtxWords
    /\ ctx_context \in Contexts
    /\ ctx_result = None
    /\ IdleAnalyze /\ IdleMono /\ IdleBatch /\ IdleLater

CallContextual ==
    /\ pc = "ctx"
    /\ \E position \in {0, Len(ctx_context)} :
          ctx_result' = AnalyzeContextualStress(ctx_word, ctx_context, position)
    /\ pc' = "ctx_done"
    /\ UNCHANGED <<laterVars, analyzeVars, mono_result, batchVars, ctx_word, ctx_context>>

NextCtx == CallContextual

SpecCtx == InitCtx /\ [][NextCtx]_vars

(***************************************************************************)
(* map_syllables_to_chars on its own: any word of AlignWords with any      *)
(* n_syllables of 0 .. MaxSyllables.                                       *)
(***************************************************************************)
AlignAlphabet == {97 (* "a" *), 101 (* "e" *), 121 (* "y" *), 116 (* "t" *), 69 (* "E" *)}

\* the last word has two capital I with dot above U+0130, whose lower case
\* is two characters long
NamedWords == {
    <<114, 104, 121, 116, 104, 109>> (* "rhythm" *), <<104, 109, 109>> (* "hmm" *), <<84, 86>> (* "TV" *), <<108, 111, 118, 101>> (* "love" *),
    <<98, 97, 110, 97, 110, 97>> (* "banana" *), <<98, 101, 97, 117, 116, 105, 102, 117, 108>> (* "beautiful" *),
    <<304, 97, 304, 101>> }

AlignWords == SeqsUpTo(AlignAlphabet, 1, MaxWordLen) \cup NamedWords

\* what a call of map_syllables_to_chars(word, n_syllables) gives its caller:
\* the list, or ZeroDivisionError out of "step = len(vowel_positions) /
\* n_syllables" (with n_syllables = 0 and a vowel letter, that line is reached:
\* the count is not 0, is above 0, and stays above 0 after the silent-e step)
MapSyllablesToCharsCall(word, n_syllables) ==
    IF n_syllables = 0 /\ VowelPositions(word) # <<>>
    THEN [raised |-> "ZeroDivisionError", value |-> <<>>]
    ELSE [raised |-> "", value |-> MapSyllablesToChars(word, n_syllables)]

InitAlign ==
    /\ pc = "align"
    /\ al_word \in AlignWords
    /\ al_n \in 0..MaxSyllables
    /\ al_result = None
    /\ IdleAnalyze /\ IdleMono /\ IdleBatch /\ IdleCtx /\ IdleLoad /\ IdleCache
    /\ IdleRest

CallAlign ==
    /\ pc = "align"
    /\ al_result' = Some(MapSyllablesToCharsCall(al_word, al_n))
    /\ pc' = "align_done"
    /\ UNCHANGED <<analyzeVars, mono_result, batchVars, ctxVars, al_word, al_n, loadVars,
                   cacheVars, restVars>>

NextAlign == CallAlign

SpecAlign == InitAlign /\ [][NextAlign]_vars

(***************************************************************************)
(* get_cmu_dictionary and CMUDictionary.__init__: the global instance, the *)
(* source file that may be missing, and the load line by line.             *)
(***************************************************************************)
\* a word of 30 letters; its line gives it 22 stress-bearing phonemes
LongWord == <<80, 78, 69, 85, 77, 79, 78, 79, 85, 76, 84, 82, 65, 77, 73, 67, 82, 79, 83, 67, 79, 80, 73, 67, 83, 73, 76, 73, 67, 79>> (* "PNEUMONOULTRAMICROSCOPICSILICO" *)

\* the lines the source files of the model are made of
DictLinePool == {
    <<59, 59, 59, 32, 99, 109, 117, 10>> (* ";;; cmu\n" *),
    <<10>> (* "\n" *),
    FileLine(<<84, 86>> (* "TV" *), <<<<84>> (* "T" *), <<73, 89, 49>> (* "IY1" *), <<86>> (* "V" *), <<73, 89, 49>> (* "IY1" *)>>),
    FileLine(<<116, 118>> (* "tv" *), <<<<84>> (* "T" *), <<73, 89, 50>> (* "IY2" *), <<86>> (* "V" *), <<73, 89, 48>> (* "IY0" *)>>),
    FileLine(<<84, 86, 40, 49, 41>> (* "TV(1)" *), <<<<84>> (* "T" *), <<69, 72, 49>> (* "EH1" *), <<76>> (* "L" *), <<73, 89, 48>> (* "IY0" *)>>),
    FileLine(<<72, 77>> (* "HM" *), <<<<72, 72>> (* "HH" *), <<77>> (* "M" *)>>),
    FileLine(<<70, 73, 82, 69>> (* "FIRE" *), <<<<70>> (* "F" *), <<65, 89, 49>> (* "AY1" *), <<69, 82>> (* "ER" *)>>),
    <<32, 32>> (* "  " *) \o FileLine(<<76, 79, 86, 69>> (* "LOVE" *), <<<<76>> (* "L" *), <<65, 72, 49>> (* "AH1" *), <<86>> (* "V" *)>>),
    <<79, 82, 80, 72, 65, 78, 10>> (* "ORPHAN\n" *) }

\* two files that hold the line of the long word
LongWordFiles == {
    <<FileLine(LongWord, [k \in 1..22 |-> <<65, 72, 48>> (* "AH0" *)])>>,
    <<FileLine(<<84, 86>> (* "TV" *), <<<<84>> (* "T" *), <<73, 89, 49>> (* "IY1" *), <<86>> (* "V" *), <<73, 89, 49>> (* "IY1" *)>>),
      FileLine(LongWord, [k \in 1..22 |-> <<65, 72, 48>> (* "AH0" *)])>> }

\* files in Latin-1 with characters outside ASCII: a word with accented
\* capitals, a form feed and a no-break space between the parts of a line
\* that ends with a vertical tab, and a phoneme that ends with a
\* superscript two
Latin1Files == {
    <<FileLine(<<68, 201, 74, 192>>,
               <<<<68>> (* "D" *), <<69, 89, 50>> (* "EY2" *), <<90, 72>> (* "ZH" *), <<65, 65, 49>> (* "AA1" *)>>)>>,
    <<<<84, 86, 12, 84>> (* "TV\fT" *) \o <<160>> \o <<73, 89, 49, 32, 86, 32, 73, 89, 49>> (* "IY1 V IY1" *)
        \o <<11, 10>>>>,
    <<<<65, 66, 32, 32, 75>> (* "AB  K" *) \o <<178, 10>>>>,
    <<FileLine(<<84, 86>> (* "TV" *), <<<<84>> (* "T" *), <<73, 89, 49>> (* "IY1" *), <<86>> (* "V" *), <<73, 89, 49>> (* "IY1" *)>>),
      <<65, 66, 32, 32, 75>> (* "AB  K" *) \o <<178, 10>>,
      FileLine(<<72, 77>> (* "HM" *), <<<<72, 72>> (* "HH" *), <<77>> (* "M" *)>>)>> }

DictFiles == SeqsUpTo(DictLinePool, 0, MaxDictLines) \cup LongWordFiles \cup Latin1Files

InitLoad ==
    /\ pc = "idle"
    /\ dict_file \in {None} \cup {Some(f) : f \in DictFiles}
    /\ self_dictionary = <<>> /\ load_i = 0 /\ cmu_dict = None
    /\ calls = 0 /\ loads = 0 /\ outcome = ""
    /\ IdleAnalyze /\ IdleMono /\ IdleBatch /\ IdleCtx /\ IdleAlign /\ IdleCache
    /\ IdleRest

idleOthers == <<analyzeVars, mono_result, batchVars, ctxVars, alignVars, cacheVars,
                restVars>>

\* get_cmu_dictionary() when _cmu_dict is set: the instance is returned
GetCmuDictionaryCached ==
    /\ pc = "idle" /\ calls < MaxCalls
    /\ cmu_dict # None
    /\ calls' = calls + 1
    /\ outcome' = "returned"
    /\ UNCHANGED <<pc, dict_file, self_dictionary, load_i, cmu_dict, loads, idleOthers>>

\* variant: a missing file gives an empty dictionary, installed and returned
GetCmuDictionaryMissingEmpty ==
    /\ pc = "idle" /\ calls < MaxCalls
    /\ cmu_dict = None /\ dict_file = None
    /\ calls' = calls + 1
    /\ loads' = loads + 1
    /\ self_dictionary' = <<>>
    /\ cmu_dict' = Some(<<>>)
    /\ outcome' = "returned"
    /\ UNCHANGED <<pc, dict_file, load_i, idleOthers>>

\* get_cmu_dictionary() when _cmu_dict is None and the file is missing:
\* CMUDictionary() raises FileNotFoundError out of _load_dictionary, so the
\* assignment to _cmu_dict is not executed
GetCmuDictionaryMissing ==
    /\ pc = "idle" /\ calls < MaxCalls
    /\ cmu_dict = None /\ dict_file = None
    /\ calls' = calls + 1
    /\ loads' = loads + 1
    /\ self_dictionary' = <<>>
    /\ outcome' = "FileNotFoundError"
    /\ UNCHANGED <<pc, dict_file, load_i, cmu_dict, idleOthers>>

\* get_cmu_dictionary() when _cmu_dict is None and the file exists:
\* CMUDictionary() starts with an empty self._dictionary and opens the file
LoadStart ==
    /\ pc = "idle" /\ calls < MaxCalls
    /\ cmu_dict = None /\ dict_file # None
    /\ calls' = calls + 1
    /\ loads' = loads + 1
    /\ self_dictionary' = <<>>
    /\ load_i' = 1
    /\ outcome' = ""
    /\ pc' = "loading"
    /\ UNCHANGED <<dict_file, cmu_dict, idleOthers>>

\* for line in file: one line.  A ValueError of the loop body leaves the
\* constructor and get_cmu_dictionary: _cmu_dict is not assigned.
LoadStep ==
    /\ pc = "loading" /\ load_i <= Len(dict_file[1])
    /\ IF LoadLineRaises(dict_file[1][load_i])
       THEN /\ outcome' = "ValueError"
            /\ pc' = "idle"
            /\ UNCHANGED <<self_dictionary, load_i>>
       ELSE /\ self_dictionary' = LoadLine(dict_file[1][load_i], self_dictionary)
            /\ load_i' = load_i + 1
            /\ UNCHANGED <<pc, outcome>>
    /\ UNCHANGED <<dict_file, cmu_dict, calls, loads, idleOthers>>

\* the file is read: the constructor returns, _cmu_dict is assigned and returned
LoadFinish ==
    /\ pc = "loading" /\ load_i > Len(dict_file[1])
    /\ cmu_dict' = Some(self_dictionary)
    /\ outcome' = "returned"
    /\ pc' = "idle"
    /\ UNCHANGED <<dict_file, self_dictionary, load_i, calls, loads, idleOthers>>

\* outside the program: the missing file is put in place between two calls
FileInstalled ==
    /\ pc = "idle" /\ dict_file = None
    /\ \E f \in DictFiles : dict_file' = Some(f)
    /\ UNCHANGED <<pc, self_dictionary, load_i, cmu_dict, calls, loads, outcome, idleOthers>>

NextLoad ==
    \/ GetCmuDictionaryCached
    \/ GetCmuDictionaryMissing
    \/ LoadStart
    \/ LoadStep
    \/ LoadFinish
    \/ FileInstalled

SpecLoad == InitLoad /\ [][NextLoad]_vars

(***************************************************************************)
(* The two memoized methods, CMUDictionary.lookup and get_phonemes, called *)
(* in any order on a loaded dictionary.  functools.lru_cache keeps the     *)
(* results by argument, least recently used first, and drops the first     *)
(* when a new result exceeds its capacity.                                 *)
(***************************************************************************)
\* variant: the most recent entry answers whatever the argument
LruFindLatest(cache, key) == Len(cache)

\* position of the argument in the cache, 0 when it is not there
LruFind(cache, key) ==
    IF \E i \in 1..Len(cache) : cache[i].key = key
    THEN CHOOSE i \in 1..Len(cache) : cache[i].key = key
    ELSE 0

\* a hit: entry i becomes the most recently used
LruTouch(cache, i) ==
    SubSeq(cache, 1, i - 1) \o SubSeq(cache, i + 1, Len(cache)) \o <<cache[i]>>

\* a miss: the result is stored, the least recently used entry dropped when
\* the cache is over its capacity
LruStore(cache, key, value, maxsize) ==
    IF Len(cache) + 1 > maxsize
    THEN Append(Tail(cache), [key |-> key, value |-> value])
    ELSE Append(cache, [key |-> key, value |-> value])

\* self.cmu_dict.lookup(word) through its lru_cache: the cache afterwards,
\* the value returned, and whether the cache answered
LookupCached(cache, word) ==
    IF LruFind(cache, word) > 0
    THEN [cache |-> LruTouch(cache, LruFind(cache, word)),
          value |-> cache[LruFind(cache, word)].value,
          hit |-> TRUE]
    ELSE [cache |-> LruStore(cache, word, Lookup(word), LookupCacheSize),
          value |-> Lookup(word),
          hit |-> FALSE]

\* variant: the predictor run before the dictionary result is looked at
G2PInvocationsEager(word, cmu_result) == <<word>>

\* the words the body of get_phonemes(word) invokes self.g2p with, cmu_result
\* being what self.cmu_dict.lookup(word.lower()) returned
G2PInvocations(word, cmu_result) ==
    IF cmu_result # None THEN <<>> ELSE <<word>>

\* what the body of get_phonemes(word) returns
GetPhonemesBody(g, word, cmu_result) ==
    IF cmu_result # None
    THEN JoinSpace(cmu_result[1].phonemes)
    ELSE JoinSpace(SelectSeq(G2PPredict(g, word), MatchesArpabet))

CacheWords == {
    <<84, 86>> (* "TV" *), <<116, 118>> (* "tv" *), <<32, 84, 118, 10>> (* " Tv\n" *), <<76, 111, 118, 101>> (* "Love" *),
    <<32, 108, 111, 118, 101>> (* " love" *), <<104, 109, 109>> (* "hmm" *), <<108, 97, 108, 97>> (* "lala" *) }

InitCache ==
    /\ pc = "serve"
    /\ g2p \in G2PModels
    /\ doc = <<>> /\ idx = 0 /\ word_analyses = <<>> /\ total_syllables = 0
    /\ stressed_syllables = 0 /\ stress_sequence = <<>> /\ scan_i = 0
    /\ dict_file = Some(DictFile) /\ self_dictionary = Dictionary
    /\ load_i = Len(DictFile) + 1 /\ cmu_dict = Some(Dictionary)
    /\ calls = 1 /\ loads = 1 /\ outcome = "returned"
    /\ lookup_cache = <<>> /\ ph_cache = <<>> /\ g2p_calls = <<>>
    /\ last_call = None /\ n_ops = 0
    /\ IdleMono /\ IdleBatch /\ IdleCtx /\ IdleAlign /\ IdleRest

cacheOthers == <<analyzeVars, mono_result, batchVars, ctxVars, alignVars, loadVars,
                 restVars>>

\* a call of cmu_dict.lookup(word)
CallLookup ==
    /\ pc = "serve" /\ n_ops < MaxOps
    /\ \E word \in CacheWords :
          /\ lookup_cache' = LookupCached(lookup_cache, word).cache
          /\ last_call' = Some([fn |-> "lookup", arg |-> word,
                                hit |-> LookupCached(lookup_cache, word).hit,
                                result |-> LookupCached(lookup_cache, word).value])
    /\ n_ops' = n_ops + 1
    /\ UNCHANGED <<pc, ph_cache, g2p_calls, cacheOthers>>

\* a call of get_phonemes(word) that its lru_cache answers
GetPhonemesHit ==
    /\ pc = "serve" /\ n_ops < MaxOps
    /\ \E word \in CacheWords :
          /\ LruFind(ph_cache, word) > 0
          /\ ph_cache' = LruTouch(ph_cache, LruFind(ph_cache, word))
          /\ last_call' = Some([fn |-> "get_phonemes", arg |-> word, hit |-> TRUE,
                                result |-> ph_cache[LruFind(ph_cache, word)].value])
    /\ n_ops' = n_ops + 1
    /\ UNCHANGED <<pc, lookup_cache, g2p_calls, cacheOthers>>

\* the rest of a call of get_phonemes(word) that runs the body, cmu_result
\* being the value lookup(word.lower()) returned
RunGetPhonemes(word, cmu_result) ==
    /\ g2p_calls' = g2p_calls \o G2PInvocations(word, cmu_result)
    /\ ph_cache' = LruStore(ph_cache, word, GetPhonemesBody(g2p, word, cmu_result),
                            PhonemeCacheSize)
    /\ last_call' = Some([fn |-> "get_phonemes", arg |-> word, hit |-> FALSE,
                          result |-> GetPhonemesBody(g2p, word, cmu_result)])

\* a call of get_phonemes(word) that runs the body
GetPhonemesMiss ==
    /\ pc = "serve" /\ n_ops < MaxOps
    /\ \E word \in CacheWords :
          /\ LruFind(ph_cache, word) = 0
          /\ lookup_cache' = LookupCached(lookup_cache, Lower(word)).cache
          /\ RunGetPhonemes(word, LookupCached(lookup_cache, Lower(word)).value)
    /\ n_ops' = n_ops + 1
    /\ UNCHANGED <<pc, cacheOthers>>

\* self.get_phonemes(word) through its lru_cache, as analyze_text calls it:
\* the two caches and the log of predictor calls afterwards, and the value
GetPhonemesCached(caches, g, word) ==
    IF LruFind(caches.ph_cache, word) > 0
    THEN [lookup_cache |-> caches.lookup_cache,
          ph_cache |-> LruTouch(caches.ph_cache, LruFind(caches.ph_cache, word)),
          g2p_calls |-> caches.g2p_calls,
          hits |-> caches.hits + 1,
          value |-> caches.ph_cache[LruFind(caches.ph_cache, word)].value]
    ELSE [lookup_cache |-> LookupCached(caches.lookup_cache, Lower(word)).cache,
          ph_cache |->
              LruStore(caches.ph_cache, word,
                       GetPhonemesBody(g, word,
                           LookupCached(caches.lookup_cache, Lower(word)).value),
                       PhonemeCacheSize),
          g2p_calls |->
              caches.g2p_calls
              \o G2PInvocations(word, LookupCached(caches.lookup_cache, Lower(word)).value),
          hits |-> caches.hits,
          value |-> GetPhonemesBody(g, word,
                        LookupCached(caches.lookup_cache, Lower(word)).value)]

\* the loop body of analyze_text for token d[i] (not skipped), ph being what
\* its call of get_phonemes gave: the analysis is appended, and the
\* multisyllabic branch calls self.cmu_dict.lookup(word.lower())
AnalyzeTokenCached(acc, d, i, ph) ==
    IF Len(ExtractStressDigits(ph.value)) > 1
    THEN [words |-> Append(acc.words,
                       WordAnalysisOf(d[i], ExtractStressDigits(ph.value),
                           AnalyzeMonosyllableStress(d, i),
                           LookupCached(ph.lookup_cache, Lower(d[i].text)).value)),
          lookup_cache |-> LookupCached(ph.lookup_cache, Lower(d[i].text)).cache,
          ph_cache |-> ph.ph_cache, g2p_calls |-> ph.g2p_calls, hits |-> ph.hits]
    ELSE [words |-> Append(acc.words,
                       WordAnalysisOf(d[i], ExtractStressDigits(ph.value),
                           AnalyzeMonosyllableStress(d, i), None)),
          lookup_cache |-> ph.lookup_cache,
          ph_cache |-> ph.ph_cache, g2p_calls |-> ph.g2p_calls, hits |-> ph.hits]

\* one iteration of the loop of analyze_text, for token d[i]
AnalyzeStepCached(acc, g, d, i) ==
    IF Skipped(d[i]) THEN acc
    ELSE AnalyzeTokenCached(acc, d, i, GetPhonemesCached(acc, g, d[i].text))

\* the loop of analyze_text over d[1..upto], starting from the caches of acc
RECURSIVE AnalyzeCachedUpTo(_, _, _, _)
AnalyzeCachedUpTo(acc, g, d, upto) ==
    IF upto = 0 THEN acc
    ELSE AnalyzeStepCached(AnalyzeCachedUpTo(acc, g, d, upto - 1), g, d, upto)

\* the token streams of the texts analyze_text is called with between the
\* calls of lookup and get_phonemes
CacheDocs == {
    <<Tok(<<84, 86>> (* "TV" *), "NOUN", "nsubj", "tv", FALSE)>>,
    <<Tok(<<108, 97, 108, 97>> (* "lala" *), "NOUN", "nsubj", "lala", FALSE),
      Tok(<<44>> (* "," *), "PUNCT", "punct", ",", TRUE),
      Tok(<<104, 109, 109>> (* "hmm" *), "INTJ", "intj", "hmm", FALSE)>>,
    <<Tok(<<76, 111, 118, 101>> (* "Love" *), "VERB", "ROOT", "love", FALSE),
      Tok(<<98, 97, 110, 97, 110, 97>> (* "banana" *), "NOUN", "dobj", "banana", FALSE),
      Tok(<<116, 118>> (* "tv" *), "NOUN", "dobj", "tv", FALSE)>> }

\* a call of analyze_text(text), d being nlp(text)
CallAnalyzeText ==
    /\ pc = "serve" /\ n_ops < MaxOps
    /\ \E d \in CacheDocs :
          LET r == AnalyzeCachedUpTo([words |-> <<>>, lookup_cache |-> lookup_cache,
                                      ph_cache |-> ph_cache, g2p_calls |-> g2p_calls,
                                      hits |-> 0], g2p, d, Len(d))
          IN  /\ lookup_cache' = r.lookup_cache
              /\ ph_cache' = r.ph_cache
              /\ g2p_calls' = r.g2p_calls
              /\ last_call' = Some([fn |-> "analyze_text", arg |-> d, hit |-> r.hits > 0,
                                    result |-> ResultOf(r.words)])
    /\ n_ops' = n_ops + 1
    /\ UNCHANGED <<pc, cacheOthers>>

NextCache ==
    \/ CallLookup
    \/ GetPhonemesHit
    \/ GetPhonemesMiss
    \/ CallAnalyzeText

SpecCache == InitCache /\ [][NextCache]_vars

(***************************************************************************)
(* analyze_batch_stress (POST /api/stress/analyze-batch).  A line of the   *)
(* request is held as the token stream the tagger gives for it, blanks     *)
(* included as whitespace tokens; its text is the tokens' texts.           *)
(***************************************************************************)
\* the tokens' texts, one blank between two tokens
LineText(line) == JoinSpace([k \in 1..Len(line) |-> line[k].text])

IsBlankToken(token) == Strip(token.text) = <<>>

RECURSIVE DropLeadingBlank(_)
DropLeadingBlank(line) ==
    IF line # <<>> /\ IsBlankToken(Head(line)) THEN DropLeadingBlank(Tail(line)) ELSE line

RECURSIVE DropTrailingBlank(_)
DropTrailingBlank(line) ==
    IF line # <<>> /\ IsBlankToken(line[Len(line)])
    THEN DropTrailingBlank(SubSeq(line, 1, Len(line) - 1))
    ELSE line

\* the token stream of text.strip()
StripLine(line) == DropTrailingBlank(DropLeadingBlank(line))

BatchLines == {
    <<>>,
    <<Tok(<<32, 13>> (* " \r" *), "SPACE", "dep", " ", FALSE)>>,
    <<Tok(<<108, 111, 118, 101>> (* "love" *), "NOUN", "ROOT", "love", FALSE)>>,
    <<Tok(<<32>> (* " " *), "SPACE", "dep", " ", FALSE),
      Tok(<<116, 104, 101>> (* "the" *), "DET", "det", "the", FALSE),
      Tok(<<98, 97, 110, 97, 110, 97>> (* "banana" *), "NOUN", "ROOT", "banana", FALSE)>>,
    <<Tok(<<108, 111, 118, 101>> (* "love" *), "NOUN", "nsubj", "love", FALSE),
      Tok(<<108, 111, 118, 101>> (* "love" *), "VERB", "ROOT", "love", FALSE),
      Tok(<<84, 86>> (* "TV" *), "NOUN", "dobj", "tv", FALSE)>> }

\* the entry results.append(...) adds: the number, the analysed text and
\* the StressAnalysisResult
LineEntry(number, text, result) ==
    [line_number |-> number,
     text |-> text,
     total_syllables |-> result.total_syllables,
     stressed_syllables |-> result.stressed_syllables,
     words |-> result.words]

\* result = analyze_stress(text.strip(), context) and the entry for it
LineResult(number, g, line) ==
    LineEntry(number, Strip(LineText(line)), AnalyzeText(g, StripLine(line)))

InitBatch ==
    /\ pc = "batch"
    /\ lines \in SeqsUpTo(BatchLines, 0, MaxLines)
    /\ g2p \in G2PModels
    /\ line_number = 0
    /\ results = <<>>
    /\ status = 0
    /\ doc = <<>> /\ idx = 0 /\ word_analyses = <<>> /\ total_syllables = 0
    /\ stressed_syllables = 0 /\ stress_sequence = <<>> /\ scan_i = 0
    /\ IdleMono /\ IdleCtx /\ IdleLater

\* "if not lines ...: raise HTTPException(400)" inside the try block, whose
\* "except Exception" handler answers every exception with status 500
BatchReject ==
    /\ pc = "batch" /\ lines = <<>>
    /\ status' = 500
    /\ pc' = "batch_done"
    /\ UNCHANGED <<laterVars, analyzeVars, mono_result, lines, line_number, results, ctxVars>>

\* the request passes the check; the loop starts
BatchAccept ==
    /\ pc = "batch" /\ lines # <<>>
    /\ pc' = "batch_loop"
    /\ UNCHANGED <<laterVars, analyzeVars, mono_result, batchVars, ctxVars>>

\* variant: a blank line is analysed like any other
BatchLineKeepBlank ==
    /\ pc = "batch_loop" /\ line_number < Len(lines)
    /\ line_number' = line_number + 1
    /\ results' = Append(results, LineResult(line_number', g2p, lines[line_number']))
    /\ UNCHANGED <<laterVars, analyzeVars, mono_result, lines, status, pc, ctxVars>>

\* variant: results numbered by their own count instead of the input position
BatchLineDense ==
    /\ pc = "batch_loop" /\ line_number < Len(lines)
    /\ line_number' = line_number + 1
    /\ results' =
          IF Strip(LineText(lines[line_number'])) = <<>>
          THEN results
          ELSE Append(results, LineResult(Len(results) + 1, g2p, lines[line_number']))
    /\ UNCHANGED <<laterVars, analyzeVars, mono_result, lines, status, pc, ctxVars>>

\* one iteration of "for line_number, text in enumerate(lines, 1)"
BatchLine ==
    /\ pc = "batch_loop" /\ line_number < Len(lines)
    /\ line_number' = line_number + 1
    /\ results' =
          IF Strip(LineText(lines[line_number'])) = <<>>
          THEN results
          ELSE Append(results, LineResult(line_number', g2p, lines[line_number']))
    /\ UNCHANGED <<laterVars, analyzeVars, mono_result, lines, status, pc, ctxVars>>

\* the loop is over: the handler returns total_lines = len(results)
BatchReturn ==
    /\ pc = "batch_loop" /\ line_number = Len(lines)
    /\ status' = 200
    /\ pc' = "batch_done"
    /\ UNCHANGED <<laterVars, analyzeVars, mono_result, lines, line_number, results, ctxVars>>

\* the body of the answer of a completed batch
BatchResponse == [total_lines |-> Len(results), lines |-> results]

NextBatch ==
    \/ BatchReject
    \/ BatchAccept
    \/ BatchLine
    \/ BatchReturn

SpecBatch == InitBatch /\ [][NextBatch]_vars

(***************************************************************************)
(* get_cmu_dictionary and get_stress_analyzer called by concurrent         *)
(* callers.  Neither function takes a lock: a caller can be suspended      *)
(* between the test of the global, the construction, the assignment and    *)
(* the return, which reads the global again.  An instance is named by the  *)
(* number of its construction; ComprehensiveStressAnalyzer.__init__ calls  *)
(* get_cmu_dictionary.                                                     *)
(***************************************************************************)
Callers == 1..NumCallers

InitRace ==
    /\ pc = "callers"
    /\ threads \in [Callers ->
                      {[op |-> "get_cmu_dictionary", at |-> "cmu_test",
                        made |-> None, ret |-> None],
                       [op |-> "get_stress_analyzer", at |-> "an_test",
                        made |-> None, ret |-> None]}]
    /\ g_cmu_dict = None /\ g_stress_analyzer = None
    /\ dict_loads = 0 /\ analyzer_inits = 0
    /\ IdleAnalyze /\ IdleMono /\ IdleBatch /\ IdleCtx
    /\ IdleAlign /\ IdleLoad /\ IdleCache /\ IdleSongs

raceOthers == <<pc, analyzeVars, mono_result, batchVars, ctxVars, alignVars, loadVars,
                cacheVars, songVars>>

\* get_cmu_dictionary: if _cmu_dict is None
CmuTest(c) ==
    /\ threads[c].at = "cmu_test"
    /\ threads' = [threads EXCEPT ![c].at =
                      IF g_cmu_dict = None THEN "cmu_construct" ELSE "cmu_return"]
    /\ UNCHANGED <<g_cmu_dict, g_stress_analyzer, dict_loads, analyzer_inits, raceOthers>>

\* get_cmu_dictionary: CMUDictionary() loads the file into a new instance
CmuConstruct(c) ==
    /\ threads[c].at = "cmu_construct"
    /\ dict_loads' = dict_loads + 1
    /\ threads' = [threads EXCEPT ![c].at = "cmu_assign",
                                  ![c].made = Some(dict_loads + 1)]
    /\ UNCHANGED <<g_cmu_dict, g_stress_analyzer, analyzer_inits, raceOthers>>

\* get_cmu_dictionary: _cmu_dict = <the new instance>
CmuAssign(c) ==
    /\ threads[c].at = "cmu_assign"
    /\ g_cmu_dict' = threads[c].made
    /\ threads' = [threads EXCEPT ![c].at = "cmu_return", ![c].made = None]
    /\ UNCHANGED <<g_stress_analyzer, dict_loads, analyzer_inits, raceOthers>>

\* get_cmu_dictionary: return _cmu_dict, to the caller or to the analyzer's
\* constructor, which then completes the new analyzer
CmuReturn(c) ==
    /\ threads[c].at = "cmu_return"
    /\ IF threads[c].op = "get_cmu_dictionary"
       THEN /\ threads' = [threads EXCEPT ![c].at = "done", ![c].ret = g_cmu_dict]
            /\ UNCHANGED analyzer_inits
       ELSE /\ analyzer_inits' = analyzer_inits + 1
            /\ threads' = [threads EXCEPT
                              ![c].at = "an_assign",
                              ![c].made = Some([id |-> analyzer_inits + 1,
                                                cmu_dict |-> g_cmu_dict[1]])]
    /\ UNCHANGED <<g_cmu_dict, g_stress_analyzer, dict_loads, raceOthers>>

\* get_stress_analyzer: if _stress_analyzer is None; the constructor starts
\* and reaches its call of get_cmu_dictionary
AnalyzerTest(c) ==
    /\ threads[c].at = "an_test"
    /\ threads' = [threads EXCEPT ![c].at =
                      IF g_stress_analyzer = None THEN "cmu_test" ELSE "an_return"]
    /\ UNCHANGED <<g_cmu_dict, g_stress_analyzer, dict_loads, analyzer_inits, raceOthers>>

\* get_stress_analyzer: _stress_analyzer = <the new analyzer>
AnalyzerAssign(c) ==
    /\ threads[c].at = "an_assign"
    /\ g_stress_analyzer' = threads[c].made
    /\ threads' = [threads EXCEPT ![c].at = "an_return", ![c].made = None]
    /\ UNCHANGED <<g_cmu_dict, dict_loads, analyzer_inits, raceOthers>>

\* get_stress_analyzer: return _stress_analyzer
AnalyzerReturn(c) ==
    /\ threads[c].at = "an_return"
    /\ threads' = [threads EXCEPT ![c].at = "done", ![c].ret = g_stress_analyzer]
    /\ UNCHANGED <<g_cmu_dict, g_stress_analyzer, dict_loads, analyzer_inits, raceOthers>>

NextRace ==
    \E c \in Callers :
        \/ CmuTest(c)
        \/ CmuConstruct(c)
        \/ CmuAssign(c)
        \/ CmuReturn(c)
        \/ AnalyzerTest(c)
        \/ AnalyzerAssign(c)
        \/ AnalyzerReturn(c)

SpecRace == InitRace /\ [][NextRace]_vars

(***************************************************************************)
(* The songs service.  A table is the sequence of its rows, a row (a       *)
(* Python dict) the sequence of its <<key, value>> pairs, and a JSON       *)
(* column value a record of its type t and its content v: a string is the  *)
(* sequence of its characters, a float <<w, d>> the number w + d / 10.     *)
(* A call ends by returning a value or by raising an exception; an         *)
(* HTTPException carries its status code and detail.                       *)
(***************************************************************************)
JNull == [t |-> "null", v |-> <<>>]
JBool(b) == [t |-> "bool", v |-> b]
JInt(n) == [t |-> "int", v |-> n]
JFloat(whole, tenths) == [t |-> "float", v |-> <<whole, tenths>>]
JStr(s) == [t |-> "string", v |-> s]
JArr(items) == [t |-> "array", v |-> items]
JObj(pairs) == [t |-> "object", v |-> pairs]

\* the number of a Python int, bool or float, in tenths
Tenths(j) ==
    CASE j.t = "int" -> 10 * j.v
      [] j.t = "bool" -> (IF j.v THEN 10 ELSE 0)
      [] j.t = "float" -> 10 * j.v[1] + j.v[2]

\* a == b of two Python values: numbers by their value, dicts by their keys
\* and values whatever the order of the keys, lists item by item
RECURSIVE PyEq(_, _)
PyEq(a, b) ==
    IF a.t \in {"int", "bool", "float"} /\ b.t \in {"int", "bool", "float"}
    THEN Tenths(a) = Tenths(b)
    ELSE IF a.t # b.t THEN FALSE
    ELSE IF a.t = "object"
    THEN /\ Len(a.v) = Len(b.v)
         /\ \A i \in 1..Len(a.v) :
               \E k \in 1..Len(b.v) :
                  b.v[k][1] = a.v[i][1] /\ PyEq(a.v[i][2], b.v[k][2])
    ELSE IF a.t = "array"
    THEN Len(a.v) = Len(b.v) /\ \A i \in 1..Len(a.v) : PyEq(a.v[i], b.v[i])
    ELSE a.v = b.v

\* d.get(key, default)
DictGet(d, key, default) ==
    IF \E i \in 1..Len(d) : d[i][1] = key
    THEN d[CHOOSE i \in 1..Len(d) : d[i][1] = key][2]
    ELSE default

\* d[key] = value
DictSet(d, key, value) ==
    IF \E i \in 1..Len(d) : d[i][1] = key
    THEN [i \in 1..Len(d) |-> IF d[i][1] = key THEN <<key, value>> ELSE d[i]]
    ELSE Append(d, <<key, value>>)

\* bool(value) of a JSON value
Truthy(j) ==
    CASE j.t = "null" -> FALSE
      [] j.t = "bool" -> j.v
      [] j.t = "int" -> j.v # 0
      [] j.t = "float" -> j.v # <<0, 0>>
      [] j.t = "string" -> Len(j.v) > 0
      [] j.t = "array" -> Len(j.v) > 0
      [] j.t = "object" -> Len(j.v) > 0

FIRST_PERSON == <<102, 105, 114, 115, 116, 95, 112, 101, 114, 115, 111, 110>> (* "first_person" *)
SECOND_PERSON == <<115, 101, 99, 111, 110, 100, 95, 112, 101, 114, 115, 111, 110>> (* "second_person" *)
THIRD_PERSON == <<116, 104, 105, 114, 100, 95, 112, 101, 114, 115, 111, 110>> (* "third_person" *)
DIRECT_ADDRESS == <<100, 105, 114, 101, 99, 116, 95, 97, 100, 100, 114, 101, 115, 115>> (* "direct_address" *)
NarrativePOV == {FIRST_PERSON, SECOND_PERSON, THIRD_PERSON, DIRECT_ADDRESS}

(***************************************************************************)
(* pydantic's conversion of a string to an int field: the string is        *)
(* trimmed, one sign is taken off, the leading zeros are dropped, a        *)
(* fraction of zeros is dropped, single underscores between characters are *)
(* removed, and what is left has to be an integer without leading zeros.   *)
(***************************************************************************)
\* the whitespace the trim removes: str.isspace() without 0x1c .. 0x1f
TrimChars == WhiteSpace

RECURSIVE TrimStart(_)
TrimStart(s) == IF s # <<>> /\ Head(s) \in TrimChars THEN TrimStart(Tail(s)) ELSE s

RECURSIVE TrimEnd(_)
TrimEnd(s) ==
    IF s # <<>> /\ s[Len(s)] \in TrimChars THEN TrimEnd(SubSeq(s, 1, Len(s) - 1)) ELSE s

Trim(s) == TrimEnd(TrimStart(s))

NonZeroDigit(c) == IsAsciiDigit(c) /\ c # 48 (* "0" *)

\* the first position from i on that holds neither "0" nor "_"
RECURSIVE ZeroScan(_, _)
ZeroScan(s, i) ==
    IF i <= Len(s) /\ s[i] \in {48 (* "0" *), 95 (* "_" *)} THEN ZeroScan(s, i + 1) ELSE i

\* None when the string cannot be a number
StripLeadingZeros(s) ==
    IF s = <<>> THEN None
    ELSE IF NonZeroDigit(s[1]) THEN Some(s)
    ELSE IF s[1] # 48 (* "0" *) THEN None
    ELSE LET i == ZeroScan(s, 2)
         IN  IF i > Len(s) THEN Some(<<s[Len(s)]>>)
             ELSE IF NonZeroDigit(s[i]) \/ s[i] = 45 (* "-" *) THEN Some(SubSeq(s, i, Len(s)))
             ELSE IF s[i] = 46 (* "." *) THEN Some(SubSeq(s, i - 1, Len(s)))
             ELSE None

StripDecimalZeros(s) ==
    IF \E k \in 1..Len(s) : s[k] = 46 (* "." *)
    THEN LET k == CHOOSE p \in 1..Len(s) : s[p] = 46 (* "." *) /\ \A q \in 1..(p - 1) : s[q] # 46 (* "." *)
         IN  IF k < Len(s) /\ \A m \in (k + 1)..Len(s) : s[m] = 48 (* "0" *)
             THEN SubSeq(s, 1, k - 1)
             ELSE s
    ELSE s

StripUnderscores(s) ==
    IF /\ s # <<>>
       /\ \/ s[1] = 95 (* "_" *)
          \/ s[Len(s)] = 95 (* "_" *)
          \/ \E k \in 1..(Len(s) - 1) : s[k] = 95 (* "_" *) /\ s[k + 1] = 95 (* "_" *)
    THEN None
    ELSE Some(SelectSeq(s, LAMBDA c : c # 95 (* "_" *)))

\* an optional "-", then "0" or digits that do not start with "0"
IsIntegerText(s) ==
    LET d == IF s # <<>> /\ s[1] = 45 (* "-" *) THEN Tail(s) ELSE s
    IN  /\ d # <<>>
        /\ \A k \in 1..Len(d) : IsAsciiDigit(d[k])
        /\ d[1] = 48 (* "0" *) => Len(d) = 1

RECURSIVE DecimalValue(_)
DecimalValue(d) ==
    IF d = <<>> THEN 0
    ELSE 10 * DecimalValue(SubSeq(d, 1, Len(d) - 1)) + DigitValue(d[Len(d)])

\* None when the string is refused, else the int
StrAsInt(s) ==
    LET trimmed == Trim(s)
        neg == trimmed # <<>> /\ trimmed[1] = 45 (* "-" *)
        unsigned == IF trimmed # <<>> /\ trimmed[1] \in {45 (* "-" *), 43 (* "+" *)}
                    THEN Tail(trimmed) ELSE trimmed
        stripped == StripLeadingZeros(unsigned)
    IN  IF stripped = None THEN None
        ELSE LET plain == StripUnderscores(StripDecimalZeros(stripped[1]))
             IN  IF plain = None THEN None
                 ELSE LET text == IF neg THEN <<45>> (* "-" *) \o plain[1] ELSE plain[1]
                      IN  IF ~IsIntegerText(text) THEN None
                          ELSE IF text[1] = 45 (* "-" *)
                          THEN Some(0 - DecimalValue(Tail(text)))
                          ELSE Some(DecimalValue(text))

\* pydantic accepts the value for an int field: an int, a bool, a float
\* without a fraction, a string that converts
IntAccepts(j) ==
    CASE j.t = "int" -> TRUE
      [] j.t = "bool" -> TRUE
      [] j.t = "float" -> j.v[2] = 0
      [] j.t = "string" -> StrAsInt(j.v) # None
      [] OTHER -> FALSE

\* the int an accepted value becomes
IntValue(j) ==
    CASE j.t = "int" -> j.v
      [] j.t = "bool" -> IF j.v THEN 1 ELSE 0
      [] j.t = "float" -> j.v[1]
      [] j.t = "string" -> StrAsInt(j.v)[1]

\* a str field takes a string only
StrAccepts(j) == j.t = "string"

\* a NarrativePOV field takes a string that is the value of a member
EnumAccepts(j) == j.t = "string" /\ j.v \in NarrativePOV

\* NarrativeSettings(**j): point_of_view and central_theme of the tab
NarrativeSettingsAccepts(j) ==
    /\ j.t = "object"
    /\ EnumAccepts(DictGet(j.v, "point_of_view", JStr(FIRST_PERSON)))
    /\ LET theme == DictGet(j.v, "central_theme", JNull)
       IN  theme.t = "null" \/ StrAccepts(theme)

\* StyleSettings(**j): energy_level of the tab, an int of 1 .. 10
StyleSettingsAccepts(j) ==
    /\ j.t = "object"
    /\ LET energy == DictGet(j.v, "energy_level", JInt(5))
       IN  IntAccepts(energy) /\ IntValue(energy) >= 1 /\ IntValue(energy) <= 10

\* the fields of SongSettings the model keeps: two of the tabs and three of
\* the optional fields; every other field holds a value that validates.
\* Of a tab the model keeps point_of_view and central_theme (foundation) and
\* energy_level (style); the other fields of a tab hold their defaults.
SettingsFields == <<"foundation", "style", "narrative_pov", "central_theme", "energy_level">>

\* len(s.strip()) == 0
IsBlank(s) == \A k \in 1..Len(s) : IsSpace(s[k])

\* validate_foundation raises: a central theme of more than 500 characters
\* that is not blank
ValidateFoundationRaises(j) ==
    LET theme == DictGet(j.v, "central_theme", JNull)
    IN  /\ theme.t = "string"
        /\ Len(theme.v) > 500
        /\ ~IsBlank(theme.v)

\* pydantic accepts the value for the field
FieldAccepts(field, j) ==
    CASE field = "foundation" -> NarrativeSettingsAccepts(j) /\ ~ValidateFoundationRaises(j)
      [] field = "style" -> StyleSettingsAccepts(j)
      [] field = "narrative_pov" -> j.t = "null" \/ EnumAccepts(j)
      [] field = "central_theme" -> j.t = "null" \/ StrAccepts(j)
      [] field = "energy_level" -> j.t = "null" \/ IntAccepts(j)

\* the default of a field that has no key
FieldDefault(field) ==
    IF field \in {"foundation", "style"} THEN JObj(<<>>) ELSE JNull

\* an optional field of the model object: None, or the validated value
FieldValue(field, j) ==
    IF j.t = "null" THEN None
    ELSE IF field = "energy_level" THEN Some(IntValue(j))
    ELSE Some(j.v)

NarrativeSettingsFrom(j) ==
    [point_of_view |-> DictGet(j.v, "point_of_view", JStr(FIRST_PERSON)).v,
     central_theme |-> FieldValue("central_theme", DictGet(j.v, "central_theme", JNull))]

\* validate_foundation: a central theme of whitespace only becomes None
ValidateFoundation(v) ==
    IF v.central_theme # None /\ v.central_theme[1] # <<>> /\ IsBlank(v.central_theme[1])
    THEN [v EXCEPT !.central_theme = None]
    ELSE v

StyleSettingsFrom(j) ==
    [energy_level |-> IntValue(DictGet(j.v, "energy_level", JInt(5)))]

\* SongSettings(): the tabs with their defaults, every optional field None
DefaultSongSettings ==
    [foundation |-> [point_of_view |-> FIRST_PERSON, central_theme |-> None],
     style |-> [energy_level |-> 5],
     narrative_pov |-> None, central_theme |-> None, energy_level |-> None]

\* SongSettings(**settings_data) raises: the argument is not a mapping
\* (TypeError) or a field does not validate (ValidationError)
SongSettingsRaises(j) ==
    \/ j.t # "object"
    \/ \E k \in 1..Len(SettingsFields) :
          ~FieldAccepts(SettingsFields[k],
                        DictGet(j.v, SettingsFields[k], FieldDefault(SettingsFields[k])))

\* SongSettings(**settings_data) for a mapping that validates: keys that
\* are no field are ignored, fields without a key keep their default
SongSettingsFrom(j) ==
    [foundation |-> ValidateFoundation(
                        NarrativeSettingsFrom(DictGet(j.v, "foundation", JObj(<<>>)))),
     style |-> StyleSettingsFrom(DictGet(j.v, "style", JObj(<<>>))),
     narrative_pov |-> FieldValue("narrative_pov", DictGet(j.v, "narrative_pov", JNull)),
     central_theme |-> FieldValue("central_theme", DictGet(j.v, "central_theme", JNull)),
     energy_level |-> FieldValue("energy_level", DictGet(j.v, "energy_level", JNull))]

\* the JSON value of an optional string or int of the model object
OptStr(o) == IF o = None THEN JNull ELSE JStr(o[1])
OptInt(o) == IF o = None THEN JNull ELSE JInt(o[1])

\* settings.model_dump()
ModelDump(settings) ==
    JObj(<< <<"foundation",
              JObj(<< <<"point_of_view", JStr(settings.foundation.point_of_view)>>,
                      <<"central_theme", OptStr(settings.foundation.central_theme)>> >>)>>,
            <<"style", JObj(<< <<"energy_level", JInt(settings.style.energy_level)>> >>)>>,
            <<"narrative_pov", OptStr(settings.narrative_pov)>>,
            <<"central_theme", OptStr(settings.central_theme)>>,
            <<"energy_level", OptInt(settings.energy_level)>> >>)

\* the inner try of get_song_settings and of _db_to_song: the parsed
\* settings, the defaults for a falsy value or when the constructor raises
SettingsOrDefault(settings_data) ==
    IF ~Truthy(settings_data) THEN DefaultSongSettings
    ELSE IF SongSettingsRaises(settings_data) THEN DefaultSongSettings
    ELSE SongSettingsFrom(settings_data)

\* how a call ends
Returns(value) == [kind |-> "return", exc |-> "", status_code |-> 0, detail |-> "",
                   value |-> Some(value)]
Raises(exc, status_code, detail) ==
    [kind |-> "raise", exc |-> exc, status_code |-> status_code, detail |-> detail,
     value |-> None]

\* the row is one of .eq("id", song_id).eq("user_id", user_id)
RowMatches(row, song_id, user_id) ==
    DictGet(row, "id", "") = song_id /\ DictGet(row, "user_id", "") = user_id

\* table(...).select(...).eq("id", song_id).eq("user_id", user_id).execute().data
SelectSong(table, song_id, user_id) ==
    SelectSeq(table, LAMBDA row : RowMatches(row, song_id, user_id))

\* the table after update({column: value}).eq(...).eq(...).execute()
UpdateRows(table, song_id, user_id, column, value) ==
    [i \in 1..Len(table) |->
        IF RowMatches(table[i], song_id, user_id)
        THEN DictSet(table[i], column, value)
        ELSE table[i]]

\* the table after delete().eq(...).eq(...).execute()
DeleteRows(table, song_id, user_id) ==
    SelectSeq(table, LAMBDA row : ~RowMatches(row, song_id, user_id))

\* the columns select(column) keeps of a row
Project(row, column) == SelectSeq(row, LAMBDA pair : pair[1] = column)

\* _db_to_song, reduced to id, user_id and settings
DbToSong(db_record) ==
    [id |-> DictGet(db_record, "id", ""), user_id |-> DictGet(db_record, "user_id", ""),
     settings |-> SettingsOrDefault(DictGet(db_record, "settings", JObj(<<>>)))]

\* the try block of get_song_settings
GetSongSettingsBody(table, song_id, user_id, db_error) ==
    IF db_error THEN Raises("Exception", 0, "")
    ELSE LET data == SelectSong(table, song_id, user_id)
         IN  IF data = <<>>
             THEN Raises("HTTPException", 404, "Song not found")
             ELSE Returns(SettingsOrDefault(
                     DictGet(Project(data[1], "settings"), "settings", JObj(<<>>))))

\* variant: every exception of the try block is answered with the 500
HandlersWithoutReraise(out, detail) ==
    IF out.kind = "raise" THEN Raises("HTTPException", 500, detail) ELSE out

\* "except HTTPException: raise" followed by "except Exception: raise
\* HTTPException(500, detail)"
ServiceHandlers(out, detail) ==
    IF out.kind = "raise" /\ out.exc # "HTTPException"
    THEN Raises("HTTPException", 500, detail)
    ELSE out

\* _check_database
DatabaseUnavailable == Raises("HTTPException", 503, "Database service unavailable")

\* _check_database, then the try block under its handlers
GetSongSettingsCall(client, table, song_id, user_id, db_error) ==
    IF client = None
    THEN DatabaseUnavailable
    ELSE ServiceHandlers(GetSongSettingsBody(table, song_id, user_id, db_error),
                         "Failed to retrieve song settings")

\* get_song: the Song of the row, 404 when no row matches
GetSongCall(client, table, song_id, user_id, db_error) ==
    IF client = None
    THEN DatabaseUnavailable
    ELSE ServiceHandlers(
            IF db_error THEN Raises("Exception", 0, "")
            ELSE IF SelectSong(table, song_id, user_id) = <<>>
            THEN Raises("HTTPException", 404, "Song not found")
            ELSE Returns(DbToSong(SelectSong(table, song_id, user_id)[1])),
            "Failed to retrieve song")

\* a call that changes the table: how it ends, and the table it leaves
Outcome(out, table) == [out |-> out, table |-> table]

\* update_song_settings: one update query; the settings were validated
\* when the request was read
UpdateSongSettingsCall(client, table, song_id, user_id, settings, db_error) ==
    IF client = None THEN Outcome(DatabaseUnavailable, table)
    ELSE IF db_error
    THEN Outcome(ServiceHandlers(Raises("Exception", 0, ""),
                                 "Failed to update song settings"), table)
    ELSE IF SelectSong(table, song_id, user_id) = <<>>
    THEN Outcome(ServiceHandlers(Raises("HTTPException", 500,
                                        "Failed to update song settings"),
                                 "Failed to update song settings"), table)
    ELSE Outcome(Returns(settings),
                 UpdateRows(table, song_id, user_id, "settings", ModelDump(settings)))

\* a call of two round trips after its first one: it has ended with out, or
\* it goes on to its second query with pending
Ended(out) == [ended |-> TRUE, out |-> Some(out), pending |-> None]
GoesOn(pending) == [ended |-> FALSE, out |-> None, pending |-> pending]

\* SixBestFriends().model_dump()
SixBestFriendsDump ==
    JObj(<< <<"who", JNull>>, <<"what", JNull>>, <<"when", JNull>>,
            <<"where", JNull>>, <<"why", JNull>>, <<"how", JNull>> >>)

\* the fields of a tab the model does not keep, as model_dump() gives them
OtherTabFields(key) ==
    CASE key = "foundation" ->
             << <<"who_is_talking", JNull>>, <<"to_whom", JNull>>,
                <<"why_message", JNull>>, <<"six_best_friends", SixBestFriendsDump>> >>
      [] key = "style" ->
             << <<"primary_genre", JNull>>, <<"sub_genres", JArr(<<>>)>>,
                <<"artist_references", JArr(<<>>)>>, <<"innovation_level", JInt(5)>>,
                <<"avoid_cliches", JBool(TRUE)>>, <<"overall_mood", JNull>> >>
      [] OTHER -> <<>>

\* current_dict[key]: a tab is a dict of every field of the tab
CurrentValue(current_dict, key) ==
    LET value == DictGet(current_dict, key, JNull)
    IN  IF value.t = "object" THEN JObj(value.v \o OtherTabFields(key)) ELSE value

\* current_dict[key] != value: a tab of the update holds the fields that
\* were set (model_dump(exclude_unset=True)) and differs from the current
\* one unless it sets every field of the tab to the current value
PartialDiffers(current_value, value) == ~PyEq(current_value, value)

\* the field is set to a value that replaces the current one
PartialReplaces(current_dict, pair) ==
    /\ pair[2].t # "null"
    /\ \E i \in 1..Len(current_dict) : current_dict[i][1] = pair[1]
    /\ PartialDiffers(CurrentValue(current_dict, pair[1]), pair[2])

\* the loop over update_data.items()
RECURSIVE ApplyFields(_, _)
ApplyFields(current_dict, update_data) ==
    IF update_data = <<>> THEN current_dict
    ELSE ApplyFields(IF PartialReplaces(current_dict, Head(update_data))
                     THEN DictSet(current_dict, Head(update_data)[1], Head(update_data)[2])
                     ELSE current_dict,
                     Tail(update_data))

\* current_dict[tab][field] = value
SetInTab(current_dict, tab, field, value) ==
    DictSet(current_dict, tab,
            JObj(DictSet(DictGet(current_dict, tab, JObj(<<>>)).v, field, value)))

\* the deprecated fields of the update that are mapped into the tabs:
\* <<field of the update, tab, field of the tab>>
DeprecatedFields == <<
    <<"narrative_pov", "foundation", "point_of_view">>,
    <<"central_theme", "foundation", "central_theme">>,
    <<"energy_level", "style", "energy_level">> >>

RECURSIVE MapDeprecated(_, _, _)
MapDeprecated(current_dict, update_data, k) ==
    IF k > Len(DeprecatedFields) THEN current_dict
    ELSE LET value == DictGet(update_data, DeprecatedFields[k][1], JNull)
         IN  MapDeprecated(IF value.t # "null"
                           THEN SetInTab(current_dict, DeprecatedFields[k][2],
                                         DeprecatedFields[k][3], value)
                           ELSE current_dict,
                           update_data, k + 1)

\* changed_fields, as the set of its entries: <<key>> for a field the loop
\* has replaced, <<tab, field>> for the entry "tab.field"
ChangedFields(current_dict, update_data) ==
    {<<update_data[i][1]>> : i \in {n \in 1..Len(update_data) :
                                     PartialReplaces(current_dict, update_data[n])}}
    \cup {<<DeprecatedFields[k][2], DeprecatedFields[k][3]>> :
             k \in {n \in 1..Len(DeprecatedFields) :
                       DictGet(update_data, DeprecatedFields[n][1], JNull).t # "null"}}

\* update_song_settings_partial up to its update query: _check_database,
\* get_song_settings, the changes and SongSettings(**current_dict).
\* update_data holds the fields of the validated update that were set.  The
\* call ends here when get_song_settings raises, when nothing has changed
\* and when the constructor raises; else it goes on with updated_settings.
UpdateSongSettingsPartialRead(client, table, song_id, user_id, update_data, db_error) ==
    IF client = None THEN Ended(DatabaseUnavailable)
    ELSE LET got == GetSongSettingsCall(client, table, song_id, user_id, db_error)
         IN  IF got.kind = "raise"
             THEN Ended(ServiceHandlers(got, "Failed to update song settings"))
             ELSE LET current_dict == ModelDump(got.value[1]).v
                      new_dict == MapDeprecated(ApplyFields(current_dict, update_data),
                                                update_data, 1)
                  IN  IF ChangedFields(current_dict, update_data) = {}
                      THEN Ended(got)
                      ELSE IF SongSettingsRaises(JObj(new_dict))
                      THEN Ended(ServiceHandlers(Raises("Exception", 0, ""),
                                                 "Failed to update song settings"))
                      ELSE GoesOn(Some(SongSettingsFrom(JObj(new_dict))))

\* the update query of update_song_settings_partial and its end: the query
\* raises, no row matches any more, or the rows are written
UpdateSongSettingsPartialWrite(table, song_id, user_id, updated_settings, db_error) ==
    IF db_error
    THEN Outcome(ServiceHandlers(Raises("Exception", 0, ""),
                                 "Failed to update song settings"), table)
    ELSE IF SelectSong(table, song_id, user_id) = <<>>
    THEN Outcome(ServiceHandlers(Raises("HTTPException", 500,
                                        "Failed to update song settings"),
                                 "Failed to update song settings"), table)
    ELSE Outcome(Returns(updated_settings),
                 UpdateRows(table, song_id, user_id, "settings",
                            ModelDump(updated_settings)))

\* update_song up to its update query: _check_database and get_song.
\* settings is None or the validated settings of the request; the request
\* sets another field too.
UpdateSongRead(client, table, song_id, user_id, settings, db_error) ==
    LET existing == GetSongCall(client, table, song_id, user_id, db_error)
    IN  IF existing.kind = "raise"
        THEN Ended(ServiceHandlers(existing, "Failed to update song"))
        ELSE GoesOn(settings)

\* the update query of update_song and its end
UpdateSongWrite(table, song_id, user_id, settings, db_error) ==
    LET updated == IF settings = None THEN table
                   ELSE UpdateRows(table, song_id, user_id, "settings",
                                   ModelDump(settings[1]))
    IN  IF db_error
        THEN Outcome(ServiceHandlers(Raises("Exception", 0, ""),
                                     "Failed to update song"), table)
        ELSE IF SelectSong(table, song_id, user_id) = <<>>
        THEN Outcome(ServiceHandlers(Raises("HTTPException", 500, "Failed to update song"),
                                     "Failed to update song"), table)
        ELSE Outcome(Returns(DbToSong(SelectSong(updated, song_id, user_id)[1])), updated)

\* create_song: the row gets an id no row has; the insert can fail
CreateSongCall(client, table, new_id, user_id, settings, stored) ==
    LET song_dict == <<<<"id", new_id>>, <<"user_id", user_id>>,
                       <<"settings", ModelDump(settings)>>>>
    IN  IF client = None THEN Outcome(DatabaseUnavailable, table)
        ELSE IF ~stored
        THEN Outcome(ServiceHandlers(Raises("HTTPException", 500, "Failed to create song"),
                                     "Failed to create song"), table)
        ELSE Outcome(Returns(DbToSong(song_dict)), Append(table, song_dict))

\* delete_song up to its delete query: _check_database and get_song
DeleteSongRead(client, table, song_id, user_id, db_error) ==
    LET existing == GetSongCall(client, table, song_id, user_id, db_error)
    IN  IF existing.kind = "raise"
        THEN Ended(ServiceHandlers(existing, "Failed to delete song"))
        ELSE GoesOn(None)

\* the delete query of delete_song and its end: True whatever rows it found
DeleteSongWrite(table, song_id, user_id, db_error) ==
    IF db_error
    THEN Outcome(ServiceHandlers(Raises("Exception", 0, ""), "Failed to delete song"),
                 table)
    ELSE Outcome(Returns(TRUE), DeleteRows(table, song_id, user_id))

\* update_prosody_config: one update query
UpdateProsodyConfigCall(client, table, song_id, user_id, config, db_error) ==
    IF client = None THEN Outcome(DatabaseUnavailable, table)
    ELSE IF db_error
    THEN Outcome(ServiceHandlers(Raises("Exception", 0, ""),
                                 "Failed to update prosody config"), table)
    ELSE IF SelectSong(table, song_id, user_id) = <<>>
    THEN Outcome(ServiceHandlers(Raises("HTTPException", 500,
                                        "Failed to update prosody config"),
                                 "Failed to update prosody config"), table)
    ELSE Outcome(Returns(config),
                 UpdateRows(table, song_id, user_id, "prosody_config", config))

\* the user id test_songs_endpoint writes
TestUserId == "550e8400-e29b-41d4-a716-446655440000"

\* test_songs_endpoint answers with a dict in every case: the error when
\* the insert raises, the success message when it answers, with or without
\* a row.  The row it inserts has no settings, and the column gets what the
\* database defaults it to.
TestSongsEndpointCall(client, table, new_id, columns, stored, db_error) ==
    IF client = None THEN Outcome(Returns("Database not configured"), table)
    ELSE IF db_error THEN Outcome(Returns("Failed to create test song"), table)
    ELSE Outcome(Returns("Test song created successfully"),
                 IF stored
                 THEN Append(table, <<<<"id", new_id>>, <<"user_id", TestUserId>>>> \o columns)
                 ELSE table)

SongIds == {"s1", "s2"}
UserIds == {"u1", TestUserId}

HOPE == <<72, 111, 112, 101>> (* "Hope" *)

\* what the stored row of song s1 can hold in its settings column; the
\* first entry is a row without the key
StoredSettings == <<
    <<>>,
    <<<<"settings", JNull>>>>,
    <<<<"settings", JObj(<<>>)>>>>,
    <<<<"settings", JObj(<< <<"narrative_pov", JStr(FIRST_PERSON)>>,
                           <<"central_theme", JStr(HOPE)>>,
                           <<"energy_level", JInt(7)>> >>)>>>>,
    <<<<"settings", JObj(<< <<"narrative_pov", JNull>>,
                           <<"energy_level", JStr(<<55>> (* "7" *))>> >>)>>>>,
    <<<<"settings", JObj(<< <<"energy_level", JStr(<<32, 43, 48, 49, 95, 48, 46, 48, 9>> (* " +01_0.0\t" *))>> >>)>>>>,
    <<<<"settings", JObj(<< <<"energy_level", JStr(<<55, 46, 53>> (* "7.5" *))>> >>)>>>>,
    <<<<"settings", JObj(<< <<"energy_level", JStr(<<104, 105, 103, 104>> (* "high" *))>> >>)>>>>,
    <<<<"settings", JObj(<< <<"energy_level", JFloat(7, 0)>> >>)>>>>,
    <<<<"settings", JObj(<< <<"energy_level", JFloat(7, 5)>> >>)>>>>,
    <<<<"settings", JObj(<< <<"energy_level", JBool(TRUE)>> >>)>>>>,
    <<<<"settings", JObj(<< <<"tempo", JInt(120)>> >>)>>>>,
    <<<<"settings", JObj(<< <<"narrative_pov", JStr(<<102, 111, 117, 114, 116, 104>> (* "fourth" *))>> >>)>>>>,
    <<<<"settings", JObj(<< <<"central_theme", JInt(7)>> >>)>>>>,
    <<<<"settings", JObj(<< <<"foundation", JObj(<< <<"point_of_view", JStr(DIRECT_ADDRESS)>> >>)>>,
                           <<"style", JObj(<< <<"energy_level", JStr(<<51>> (* "3" *))>> >>)>> >>)>>>>,
    <<<<"settings", JObj(<< <<"style", JObj(<< <<"energy_level", JInt(11)>> >>)>> >>)>>>>,
    <<<<"settings", JObj(<< <<"foundation", JNull>> >>)>>>>,
    <<<<"settings", JObj(<< <<"foundation", JObj(<< <<"central_theme", JStr(<<32, 9>> (* " \t" *))>> >>)>>,
                           <<"central_theme", JStr(<<32>> (* " " *))>> >>)>>>>,
    <<<<"settings", JArr(<<JInt(1)>>)>>>>,
    <<<<"settings", JArr(<<>>)>>>>,
    <<<<"settings", JStr(FIRST_PERSON)>>>>,
    <<<<"settings", JStr(<<>>)>>>>,
    <<<<"settings", JBool(TRUE)>>>>,
    <<<<"settings", JInt(0)>>>> >>

\* the row of song s1, owned by user u1
SongRow(columns) == <<<<"id", "s1">>, <<"user_id", "u1">>>> \o columns

\* validated settings a request can carry
SettingsInputs == {
    DefaultSongSettings,
    [foundation |-> [point_of_view |-> THIRD_PERSON, central_theme |-> Some(HOPE)],
     style |-> [energy_level |-> 9],
     narrative_pov |-> Some(SECOND_PERSON), central_theme |-> None,
     energy_level |-> Some(11)] }

\* the set fields of validated partial updates; the last two set every
\* field of a tab to what a song with the default settings holds
PartialInputs == <<
    <<>>,
    << <<"energy_level", JInt(8)>> >>,
    << <<"foundation", JObj(<< <<"central_theme", JStr(HOPE)>> >>)>> >>,
    << <<"narrative_pov", JStr(THIRD_PERSON)>>, <<"central_theme", JNull>> >>,
    << <<"style", JObj(<< <<"energy_level", JInt(5)>> >> \o OtherTabFields("style"))>> >>,
    << <<"foundation",
         JObj(<< <<"central_theme", JNull>>, <<"point_of_view", JStr(FIRST_PERSON)>> >>
              \o OtherTabFields("foundation"))>> >> >>

\* dumps of validated prosody configurations
ProsodyInputs == <<
    JObj(<< <<"custom_meter_patterns", JArr(<<>>)>> >>),
    JObj(<< <<"custom_meter_patterns", JArr(<<JStr(<<47, 117>> (* "/u" *))>>)>> >>) >>

\* what the database can default the settings column of an inserted row to
ColumnDefaults == << <<>>, <<<<"settings", JNull>>>>, <<<<"settings", JObj(<<>>)>>>> >>

Requests == 1..NumRequests

\* db_error: the query the call made last has raised; pending: what a call
\* of two round trips holds for its second query
NewRequest(op, song_id, user_id, db_error) ==
    [op |-> op, song_id |-> song_id, user_id |-> user_id, db_error |-> db_error,
     at |-> "start", next_version |-> 0, pending |-> None, raised |-> None,
     returned |-> None]

\* the call ends as out says
Finish(req, out) ==
    [req EXCEPT !.at = "done",
                !.raised = IF out.kind = "raise"
                           THEN Some([status_code |-> out.status_code,
                                      detail |-> out.detail])
                           ELSE None,
                !.returned = out.value]

songOthers == <<pc, analyzeVars, mono_result, batchVars, ctxVars, alignVars, loadVars,
                cacheVars, raceVars>>

IdleNotSongs ==
    /\ IdleAnalyze /\ IdleMono /\ IdleBatch /\ IdleCtx
    /\ IdleAlign /\ IdleLoad /\ IdleCache /\ IdleRace

(***************************************************************************)
(* The calls of the songs service on the songs table.  Each round trip to  *)
(* the database is one step: get_song_settings, update_song_settings,      *)
(* create_song, update_prosody_config and test_songs_endpoint make one,    *)
(* update_song_settings_partial, update_song and delete_song two, and      *)
(* between the two the calls of other requests (server processes sharing   *)
(* the database) take their steps.  requests holds the calls in flight and *)
(* after them the call that ended last; db_error says that the query of    *)
(* the step raises, stored that the insert stores the row.                 *)
(***************************************************************************)
InitSettings ==
    /\ pc = "songs"
    /\ supabase \in {None, Some("client")}
    /\ \E k \in 1..Len(StoredSettings) : songs_table = <<SongRow(StoredSettings[k])>>
    /\ song_versions = <<>>
    /\ requests = <<>>
    /\ song_calls = 0
    /\ IdleNotSongs

\* the calls in flight
InFlight(reqs) == SelectSeq(reqs, LAMBDA q : q.at # "done")

\* a call can start
CanStart == song_calls < MaxSongCalls /\ Len(InFlight(requests)) < NumRequests

\* a call of one round trip: it has ended with result.out and left
\* result.table
Served(op, song_id, user_id, db_error, result) ==
    /\ CanStart
    /\ song_calls' = song_calls + 1
    /\ requests' = Append(InFlight(requests),
                          Finish(NewRequest(op, song_id, user_id, db_error), result.out))
    /\ songs_table' = result.table
    /\ UNCHANGED <<supabase, song_versions, songOthers>>

\* the first round trip of a call of two: the call has ended, or it waits
\* for its second query with first.pending
Started(op, song_id, user_id, db_error, first) ==
    /\ CanStart
    /\ song_calls' = song_calls + 1
    /\ requests' = Append(InFlight(requests),
                          IF first.ended
                          THEN Finish(NewRequest(op, song_id, user_id, db_error),
                                      first.out[1])
                          ELSE [NewRequest(op, song_id, user_id, db_error)
                                   EXCEPT !.at = "write", !.pending = first.pending])
    /\ UNCHANGED <<supabase, songs_table, song_versions, songOthers>>

\* the second round trip of the call at position r: it has ended with
\* result.out and left result.table
Completed(r, db_error, result) ==
    /\ requests' = Append(InFlight([i \in 1..(Len(requests) - 1) |->
                                       IF i < r THEN requests[i] ELSE requests[i + 1]]),
                          Finish([requests[r] EXCEPT !.db_error = db_error], result.out))
    /\ songs_table' = result.table
    /\ UNCHANGED <<supabase, song_versions, song_calls, songOthers>>

\* an id no row of the table has (uuid.uuid4())
FreshIds == {id \in SongIds : \A i \in 1..Len(songs_table) :
                                 DictGet(songs_table[i], "id", "") # id}

GetSongSettings ==
    \E s \in SongIds, u \in UserIds, e \in BOOLEAN :
        Served("get_song_settings", s, u, e,
               Outcome(GetSongSettingsCall(supabase, songs_table, s, u, e), songs_table))

UpdateSongSettings ==
    \E s \in SongIds, u \in UserIds, e \in BOOLEAN, settings \in SettingsInputs :
        Served("update_song_settings", s, u, e,
               UpdateSongSettingsCall(supabase, songs_table, s, u, settings, e))

\* update_song_settings_partial: _check_database and get_song_settings
UpdateSongSettingsPartial ==
    \E s \in SongIds, u \in UserIds, e \in BOOLEAN, k \in 1..Len(PartialInputs) :
        Started("update_song_settings_partial", s, u, e,
                UpdateSongSettingsPartialRead(supabase, songs_table, s, u,
                                              PartialInputs[k], e))

\* update_song_settings_partial: the update query
UpdateSongSettingsPartialUpdate ==
    \E r \in DOMAIN requests, e \in BOOLEAN :
        /\ requests[r].op = "update_song_settings_partial" /\ requests[r].at = "write"
        /\ Completed(r, e, UpdateSongSettingsPartialWrite(
                              songs_table, requests[r].song_id, requests[r].user_id,
                              requests[r].pending[1], e))

\* update_song: _check_database and get_song
UpdateSong ==
    \E s \in SongIds, u \in UserIds, e \in BOOLEAN,
       settings \in {None} \cup {Some(x) : x \in SettingsInputs} :
        Started("update_song", s, u, e,
                UpdateSongRead(supabase, songs_table, s, u, settings, e))

\* update_song: the update query
UpdateSongUpdate ==
    \E r \in DOMAIN requests, e \in BOOLEAN :
        /\ requests[r].op = "update_song" /\ requests[r].at = "write"
        /\ Completed(r, e, UpdateSongWrite(songs_table, requests[r].song_id,
                                           requests[r].user_id, requests[r].pending, e))

CreateSong ==
    \E id \in FreshIds, u \in UserIds, stored \in BOOLEAN, settings \in SettingsInputs :
        Served("create_song", id, u, ~stored,
               CreateSongCall(supabase, songs_table, id, u, settings, stored))

\* delete_song: _check_database and get_song
DeleteSong ==
    \E s \in SongIds, u \in UserIds, e \in BOOLEAN :
        Started("delete_song", s, u, e, DeleteSongRead(supabase, songs_table, s, u, e))

\* delete_song: the delete query
DeleteSongQuery ==
    \E r \in DOMAIN requests, e \in BOOLEAN :
        /\ requests[r].op = "delete_song" /\ requests[r].at = "write"
        /\ Completed(r, e, DeleteSongWrite(songs_table, requests[r].song_id,
                                           requests[r].user_id, e))

UpdateProsodyConfig ==
    \E s \in SongIds, u \in UserIds, e \in BOOLEAN, k \in 1..Len(ProsodyInputs) :
        Served("update_prosody_config", s, u, e,
               UpdateProsodyConfigCall(supabase, songs_table, s, u, ProsodyInputs[k], e))

TestSongsEndpoint ==
    \E id \in FreshIds, stored \in BOOLEAN, e \in BOOLEAN, k \in 1..Len(ColumnDefaults) :
        Served("test_songs_endpoint", id, TestUserId, e,
               TestSongsEndpointCall(supabase, songs_table, id,
                                     ColumnDefaults[k], stored, e))

NextSettings ==
    \/ GetSongSettings
    \/ UpdateSongSettings
    \/ UpdateSongSettingsPartial
    \/ UpdateSongSettingsPartialUpdate
    \/ UpdateSong
    \/ UpdateSongUpdate
    \/ CreateSong
    \/ DeleteSong
    \/ DeleteSongQuery
    \/ UpdateProsodyConfig
    \/ TestSongsEndpoint

SpecSettings == InitSettings /\ [][NextSettings]_vars

(***************************************************************************)
(* create_song_version and delete_song called by concurrent requests       *)
(* (server processes sharing the database).  Each database round trip is a *)
(* step: get_song, the read of the highest version number,                 *)
(* get_prosody_config, the insert; get_song, the delete.  The insert can   *)
(* fail.  A version row keeps song_id, user_id and version_number of the   *)
(* record the code inserts; the delete removes the rows of table "songs"   *)
(* only, as the query says.                                                *)
(***************************************************************************)
versionOthers == <<song_calls, songOthers>>

InitVersions ==
    /\ pc = "songs"
    /\ supabase \in {None, Some("client")}
    /\ songs_table = <<SongRow(StoredSettings[3])>>
    /\ song_versions = <<>>
    /\ requests \in [Requests ->
                       {NewRequest(op, s, u, FALSE) :
                           op \in {"create_song_version", "delete_song"},
                           s \in SongIds, u \in UserIds}]
    /\ song_calls = 0
    /\ IdleNotSongs

\* order("version_number", desc=True).limit(1) of the versions of the song
HighestVersion(versions, song_id) ==
    LET mine == SelectSeq(versions, LAMBDA v : v.song_id = song_id)
    IN  IF mine = <<>> THEN <<>>
        ELSE <<mine[CHOOSE i \in 1..Len(mine) :
                       \A j \in 1..Len(mine) : mine[j].version_number <= mine[i].version_number]>>

\* next_version = 1, or the highest stored number plus one
NextVersion(versions, song_id) ==
    LET data == HighestVersion(versions, song_id)
    IN  IF data = <<>> THEN 1 ELSE data[1].version_number + 1

\* get_song and get_prosody_config: 404 when no row matches
SongLookup(table, song_id, user_id) ==
    IF SelectSong(table, song_id, user_id) = <<>>
    THEN Raises("HTTPException", 404, "Song not found")
    ELSE Returns(SelectSong(table, song_id, user_id)[1])

\* _check_database, then current_song = await self.get_song(song_id, user)
CreateVersionGetSong(r) ==
    /\ requests[r].op = "create_song_version" /\ requests[r].at = "start"
    /\ requests' = [requests EXCEPT ![r] =
          IF supabase = None
          THEN Finish(@, DatabaseUnavailable)
          ELSE IF SongLookup(songs_table, @.song_id, @.user_id).kind = "raise"
          THEN Finish(@, ServiceHandlers(SongLookup(songs_table, @.song_id, @.user_id),
                                         "Failed to create song version"))
          ELSE [@ EXCEPT !.at = "read_version"]]
    /\ UNCHANGED <<supabase, songs_table, song_versions, versionOthers>>

\* the query for the highest version number and the choice of next_version
CreateVersionReadNumber(r) ==
    /\ requests[r].at = "read_version"
    /\ requests' = [requests EXCEPT ![r].at = "get_config",
                                    ![r].next_version =
                                        NextVersion(song_versions, requests[r].song_id)]
    /\ UNCHANGED <<supabase, songs_table, song_versions, versionOthers>>

\* await self.get_prosody_config(song_id, user) while version_dict is built
CreateVersionGetConfig(r) ==
    /\ requests[r].at = "get_config"
    /\ requests' = [requests EXCEPT ![r] =
          IF SongLookup(songs_table, @.song_id, @.user_id).kind = "raise"
          THEN Finish(@, ServiceHandlers(SongLookup(songs_table, @.song_id, @.user_id),
                                         "Failed to create song version"))
          ELSE [@ EXCEPT !.at = "insert"]]
    /\ UNCHANGED <<supabase, songs_table, song_versions, versionOthers>>

\* the record the code inserts, reduced to its key fields
VersionRecord(req) ==
    [song_id |-> req.song_id, user_id |-> req.user_id,
     version_number |-> req.next_version]

\* insert(version_dict).execute(): the row is stored and returned, or the
\* insert fails and the call raises the 500
CreateVersionInsert(r) ==
    /\ requests[r].at = "insert"
    /\ \E stored \in BOOLEAN :
          IF stored
          THEN /\ song_versions' = Append(song_versions, VersionRecord(requests[r]))
               /\ requests' = [requests EXCEPT ![r] =
                                  Finish(@, Returns(VersionRecord(@)))]
          ELSE /\ song_versions' = song_versions
               /\ requests' = [requests EXCEPT ![r] =
                                  Finish(@, Raises("HTTPException", 500,
                                                   "Failed to create song version"))]
    /\ UNCHANGED <<supabase, songs_table, versionOthers>>

\* _check_database, then await self.get_song(song_id, user) of delete_song
DeleteSongGetSong(r) ==
    /\ requests[r].op = "delete_song" /\ requests[r].at = "start"
    /\ requests' = [requests EXCEPT ![r] =
          IF GetSongCall(supabase, songs_table, @.song_id, @.user_id, FALSE).kind = "raise"
          THEN Finish(@, ServiceHandlers(
                            GetSongCall(supabase, songs_table, @.song_id, @.user_id, FALSE),
                            "Failed to delete song"))
          ELSE [@ EXCEPT !.at = "delete"]]
    /\ UNCHANGED <<supabase, songs_table, song_versions, versionOthers>>

\* the delete query of delete_song, and return True
DeleteSongDelete(r) ==
    /\ requests[r].at = "delete"
    /\ LET result == DeleteSongWrite(songs_table, requests[r].song_id,
                                     requests[r].user_id, requests[r].db_error)
       IN  /\ songs_table' = result.table
           /\ requests' = [requests EXCEPT ![r] = Finish(@, result.out)]
    /\ UNCHANGED <<supabase, song_versions, versionOthers>>

NextVersions ==
    \E r \in Requests :
        \/ CreateVersionGetSong(r)
        \/ CreateVersionReadNumber(r)
        \/ CreateVersionGetConfig(r)
        \/ CreateVersionInsert(r)
        \/ DeleteSongGetSong(r)
        \/ DeleteSongDelete(r)

SpecVersions == InitVersions /\ [][NextVersions]_vars

(***************************************************************************)
(* Properties.                                                             *)
(***************************************************************************)
IsNegation(token) ==
    Lower(token.text) = <<110, 111, 116>> (* "not" *) \/ EndsWith(token.text, <<110, 39, 116>> (* "n't" *))

IsThere(token) == Lower(token.text) = <<116, 104, 101, 114, 101>> (* "there" *)

\* the token has none of the three special cases that precede the tag rule
PlainToken(token) == ~IsNegation(token) /\ ~IsThere(token) /\ token.dep # "prt"

\* C1: every WordAnalysis analyze_text builds has as many stress digits as
\* character positions and as syllables.
C1_LengthsAgree ==
    \A k \in 1..Len(word_analyses) :
        /\ Len(word_analyses[k].stress_pattern) = Len(word_analyses[k].char_positions)
        /\ Len(word_analyses[k].stress_pattern) = Len(word_analyses[k].syllables)

\* C2: a word for which neither the dictionary nor the G2P fallback yields a
\* stress-bearing phoneme is analysed as the single stressed syllable [1]
\* with reasoning fallback_single_stressed.
C2_UnresolvedIsFallbackStressed ==
    \A k \in 1..Len(word_analyses) :
        ExtractStressDigits(GetPhonemes(g2p, word_analyses[k].word)) = <<>>
        => /\ word_analyses[k].stress_pattern = <<1>>
           /\ word_analyses[k].reasoning = <<"fallback", "single", "stressed">>

\* C3: when analyze_text has returned more than two words, their stress
\* patterns carry the digits of the smoothing scan: the middle of a scanned
\* window of three positive digits is 0 where it was 1 and unchanged where
\* it was 2.
C3_ReturnedPatternsAreSmoothed ==
    (pc = "done" /\ Len(word_analyses) > 2)
    => StressSequenceOf(word_analyses) = stress_sequence

\* the 1-based positions in ls[1..upto] of the lines that are not blank
RECURSIVE NonBlankPositions(_, _)
NonBlankPositions(ls, upto) ==
    IF upto = 0 THEN <<>>
    ELSE IF Strip(LineText(ls[upto])) = <<>> THEN NonBlankPositions(ls, upto - 1)
    ELSE Append(NonBlankPositions(ls, upto - 1), upto)

\* C4 (as claimed): the k-th line result of a batch has line_number k.
C4_LineNumbersAreDense ==
    \A k \in 1..Len(results) : results[k].line_number = k

\* C4 (amended): the k-th line result of a batch has as line_number the
\* 1-based position, in the request's list, of the k-th line that is not
\* blank: a blank line consumes a number.
C4_LineNumberIsInputPosition ==
    /\ Len(results) = Len(NonBlankPositions(lines, line_number))
    /\ \A k \in 1..Len(results) :
          results[k].line_number = NonBlankPositions(lines, line_number)[k]

\* C4 witness: a batch has been answered in which a result follows a blank line
C4_Witness ==
    /\ pc = "batch_done" /\ status = 200
    /\ \E k \in 1..Len(results) : results[k].line_number > k

InDictionary(word) == Lookup(Lower(word)) # None

\* C5 (as claimed): a word found in the dictionary has confidence 0.95, any
\* other word 0.8.
C5_DictionaryHitsHaveHighConfidence ==
    \A k \in 1..Len(word_analyses) :
        word_analyses[k].confidence =
            IF InDictionary(word_analyses[k].word) THEN "0.95" ELSE "0.8"

\* C5 (amended): a word found in the dictionary whose phonemes give two or
\* more stress digits (reasoning cmu_dictionary_multisyllable) has
\* confidence 0.95; every other word, a dictionary word of one syllable
\* included, has confidence 0.8.
C5_ConfidenceFollowsMultisyllableHit ==
    \A k \in 1..Len(word_analyses) :
        LET w == word_analyses[k]
            digits == ExtractStressDigits(GetPhonemes(g2p, w.word))
        IN  w.confidence =
                IF InDictionary(w.word) /\ Len(digits) >= 2 THEN "0.95" ELSE "0.8"

\* C5 witness: one text gave a dictionary word of one syllable (0.8), a dictionary word
\* of several (0.95) and a word the G2P fallback resolved (0.8)
C5_Witness ==
    /\ pc = "done"
    /\ \E a, b, c \in 1..Len(word_analyses) :
          /\ InDictionary(word_analyses[a].word)
          /\ Len(word_analyses[a].stress_pattern) = 1
          /\ word_analyses[a].confidence = "0.8"
          /\ InDictionary(word_analyses[b].word)
          /\ Len(word_analyses[b].stress_pattern) >= 2
          /\ word_analyses[b].confidence = "0.95"
          /\ ~InDictionary(word_analyses[c].word)
          /\ word_analyses[c].reasoning = <<"g2p", "fallback", "multisyllable">>
          /\ word_analyses[c].confidence = "0.8"

\* C6 (as claimed): a token with a closed-class tag is classified 0 with a
\* reasoning that begins function_word_unstressed_, whatever its text,
\* dependency role and next token.
C6_ClosedClassAlwaysUnstressed ==
    (pc = "mono_done" /\ doc[idx].pos \in FunctionPos)
    => /\ mono_result[1] = 0
       /\ ReasonStartsWith(mono_result[2], <<"function", "word", "unstressed">>)

\* C6 (amended): a token with a closed-class tag that is no negation, is not
\* "there" and is no phrasal-verb particle is classified 0 with reasoning
\* function_word_unstressed_<tag in lower case>.
C6_PlainClosedClassUnstressed ==
    (pc = "mono_done" /\ doc[idx].pos \in FunctionPos /\ PlainToken(doc[idx]))
    => mono_result = <<0, <<"function", "word", "unstressed", PosLower(doc[idx].pos)>>>>

\* C6 witness: a closed-class token that is no negation, no "there" and no particle
\* has been classified
C6_Witness ==
    /\ pc = "mono_done"
    /\ doc[idx].pos = "PART" /\ PlainToken(doc[idx])
    /\ doc[idx].text = <<78, 39, 84>> (* "N'T" *)
    /\ Len(doc) = 2
    /\ mono_result = <<0, <<"function", "word", "unstressed", "part">>>>

\* C7 (as claimed): a token with an open-class tag is classified 1 with a
\* reasoning that begins content_word_stressed_, whatever its text,
\* dependency role and next token.
C7_OpenClassAlwaysStressed ==
    (pc = "mono_done" /\ doc[idx].pos \in ContentPos)
    => /\ mono_result[1] = 1
       /\ ReasonStartsWith(mono_result[2], <<"content", "word", "stressed">>)

\* C7 (amended): a token with an open-class tag that is no negation, is not
\* "there" and is no phrasal-verb particle is classified 1 with reasoning
\* content_word_stressed_<tag in lower case>.
C7_PlainOpenClassStressed ==
    (pc = "mono_done" /\ doc[idx].pos \in ContentPos /\ PlainToken(doc[idx]))
    => mono_result = <<1, <<"content", "word", "stressed", PosLower(doc[idx].pos)>>>>

\* C7 witness: an open-class token that is no negation, no "there" and no particle
\* has been classified
C7_Witness ==
    /\ pc = "mono_done"
    /\ doc[idx].pos = "INTJ" /\ PlainToken(doc[idx])
    /\ doc[idx].text = <<104, 109, 109>> (* "hmm" *)
    /\ Len(doc) = 2 /\ doc[2].lemma = "be"
    /\ mono_result = <<1, <<"content", "word", "stressed", "intj">>>>

\* the token after d[i] exists, has lemma "be" and tag AUX or VERB
FollowedByBe(d, i) ==
    /\ i < Len(d)
    /\ d[i + 1].lemma = "be"
    /\ d[i + 1].pos \in {"AUX", "VERB"}

\* C8: "there" is (0, existential_there_unstressed) exactly when the next
\* token of the document exists with lemma "be" and tag AUX or VERB, and
\* (1, locative_there_stressed) otherwise, whatever its own tag and role.
C8_ThereByNextToken ==
    (pc = "mono_done" /\ IsThere(doc[idx]))
    => mono_result = IF FollowedByBe(doc, idx)
                     THEN <<0, <<"existential", "there", "unstressed">>>>
                     ELSE <<1, <<"locative", "there", "stressed">>>>

\* C8 witness: "There" tagged as a particle of a phrasal verb, before a "be" that is
\* tagged NOUN: the locative reading
C8_Witness ==
    /\ pc = "mono_done" /\ IsThere(doc[idx])
    /\ doc[idx].dep = "prt" /\ doc[idx].pos = "DET"
    /\ Len(doc) = 2 /\ doc[2].lemma = "be" /\ doc[2].pos = "NOUN"
    /\ mono_result = <<1, <<"locative", "there", "stressed">>>>

\* C9: a negation is (1, negation_stressed) whatever its tag, role and
\* neighbours; a token that is neither a negation nor "there" and has role
\* prt is (1, phrasal_verb_particle_stressed) whatever its tag.
C9_NegationThenParticle ==
    pc = "mono_done"
    => /\ IsNegation(doc[idx])
          => mono_result = <<1, <<"negation", "stressed">>>>
       /\ (~IsNegation(doc[idx]) /\ ~IsThere(doc[idx]) /\ doc[idx].dep = "prt")
          => mono_result = <<1, <<"phrasal", "verb", "particle", "stressed">>>>

\* C9 witness: a negation in the role of a particle with a closed-class tag
C9_Witness ==
    /\ pc = "mono_done"
    /\ doc[idx].text = <<99, 97, 110, 39, 116>> (* "can't" *)
    /\ doc[idx].dep = "prt" /\ doc[idx].pos = "AUX"
    /\ mono_result = <<1, <<"negation", "stressed">>>>

\* some pattern of the list matches the text
AnyMatch(patterns, text) == \E k \in 1..Len(patterns) : Search(patterns[k], text)

\* C10: for a contextual word, the result is False whenever one of its
\* unstressed patterns matches the lower-cased context, also when a
\* stressed pattern matches too; it is True only when none matches.
C10_UnstressedPatternsFirst ==
    (pc = "ctx_done" /\ Strip(Lower(ctx_word)) \in ContextualWords)
    => LET un == ContextualPatterns(Strip(Lower(ctx_word))).unstressed_patterns
       IN  /\ AnyMatch(un, Lower(ctx_context)) => ctx_result = Some(FALSE)
           /\ ctx_result = Some(TRUE) => ~AnyMatch(un, Lower(ctx_context))

\* C10 witness: "there" in "There is a house": an unstressed and a stressed pattern match
C10_Witness ==
    /\ pc = "ctx_done"
    /\ ctx_word = <<116, 104, 101, 114, 101>> (* "there" *)
    /\ ctx_context = JoinSpace(<<<<84, 104, 101, 114, 101>> (* "There" *), <<105, 115>> (* "is" *), <<97>> (* "a" *),
                                 <<104, 111, 117, 115, 101>> (* "house" *)>>)
    /\ AnyMatch(ContextualPatterns(ctx_word).stressed_patterns, Lower(ctx_context))
    /\ AnyMatch(ContextualPatterns(ctx_word).unstressed_patterns, Lower(ctx_context))
    /\ ctx_result = Some(FALSE)

\* the seven words whose stress depends on their grammatical role
SevenContextualWords == {
    <<116, 104, 101, 114, 101>> (* "there" *), <<104, 101, 114, 101>> (* "here" *), <<119, 104, 101, 114, 101>> (* "where" *),
    <<119, 104, 101, 110>> (* "when" *), <<119, 104, 97, 116>> (* "what" *), <<104, 111, 119>> (* "how" *), <<119, 104, 121>> (* "why" *) }

\* C11: analyze_contextual_stress returns None exactly when the lower-cased,
\* trimmed word is not one of the seven contextual words; for each of the seven
\* it returns a boolean, and it returns True when no pattern of the word matches.
C11_NoneExactlyOutsideTheSeven ==
    pc = "ctx_done" =>
       LET w == Strip(Lower(ctx_word))
       IN  /\ (ctx_result = None) <=> (w \notin SevenContextualWords)
           /\ w \in SevenContextualWords =>
                 /\ ctx_result \in {Some(TRUE), Some(FALSE)}
                 /\ (~AnyMatch(ContextualPatterns(w).unstressed_patterns,
                               Lower(ctx_context))
                     /\ ~AnyMatch(ContextualPatterns(w).stressed_patterns,
                                  Lower(ctx_context)))
                    => ctx_result = Some(TRUE)

\* C11 witness: " There " with blanks around it and a capital, in a context that
\* matches none of the patterns of "there", has been answered True
C11_Witness ==
    /\ pc = "ctx_done"
    /\ ctx_word = <<32, 84, 104, 101, 114, 101, 32>> (* " There " *)
    /\ ~AnyMatch(ContextualPatterns(<<116, 104, 101, 114, 101>> (* "there" *)).unstressed_patterns,
                 Lower(ctx_context))
    /\ ~AnyMatch(ContextualPatterns(<<116, 104, 101, 114, 101>> (* "there" *)).stressed_patterns,
                 Lower(ctx_context))
    /\ ctx_result = Some(TRUE)

\* the word has no letter among a, e, i, o, u, y (in either case)
NoVowelLetter(word) == \A k \in 1..Len(word) : ~IsOrthoVowel(word[k])

\* the tokens of d[1..upto] that analyze_text does not skip, in order
AnalysedTokens(d, upto) == SelectSeq(SubSeq(d, 1, upto), LAMBDA t : ~Skipped(t))

\* C12: a word in which the aligner finds no vowel letter aligns to the empty
\* sequence for every syllable count, without raising, and analyze_text has a
\* WordAnalysis for every token it has passed that is not skipped, such
\* tokens included.
C12_NoVowelAlignsEmpty ==
    LET passed == AnalysedTokens(doc, idx - 1)
    IN  pc \in {"loop", "smooth", "done"} =>
          /\ Len(word_analyses) = Len(passed)
          /\ \A k \in 1..Len(passed) :
                /\ word_analyses[k].word = passed[k].text
                /\ NoVowelLetter(passed[k].text) =>
                      /\ word_analyses[k].char_positions = <<>>
                      /\ \A n \in 0..MaxSyllables :
                            MapSyllablesToCharsCall(passed[k].text, n)
                               = [raised |-> "", value |-> <<>>]

\* C12 witness: analyze_text has returned an analysis of "TV", two syllables by
\* the dictionary, with no character position
C12_Witness ==
    /\ pc = "done"
    /\ \E k \in 1..Len(word_analyses) :
          /\ word_analyses[k].word = <<84, 86>> (* "TV" *)
          /\ Len(word_analyses[k].stress_pattern) = 2
          /\ word_analyses[k].char_positions = <<>>

Rhythm == <<114, 104, 121, 116, 104, 109>> (* "rhythm" *)

\* C13 (as claimed): map_syllables_to_chars("rhythm", n) returns the empty
\* sequence for every n, without raising.
C13_RhythmAlignsEmpty ==
    (pc = "align_done" /\ al_word = Rhythm)
    => al_result = Some([raised |-> "", value |-> <<>>])

\* C13 (amended): "rhythm" has one vowel letter, the "y" at index 2:
\* map_syllables_to_chars("rhythm", n) returns n times the index 2 for every
\* n >= 1, without raising, and raises ZeroDivisionError for n = 0.
C13_RhythmAlignsAtY ==
    (pc = "align_done" /\ al_word = Rhythm)
    => al_result = Some(IF al_n = 0
                        THEN [raised |-> "ZeroDivisionError", value |-> <<>>]
                        ELSE [raised |-> "", value |-> [k \in 1..al_n |-> 2]])

\* C13 witness: "rhythm" has been aligned to three syllables
C13_Witness ==
    /\ pc = "align_done" /\ al_word = Rhythm /\ al_n = 3
    /\ al_result = Some([raised |-> "", value |-> <<2, 2, 2>>])

\* the 0-based positions of the vowel letters of word
VowelLetterPositions(word) == {k - 1 : k \in {j \in 1..Len(word) : IsOrthoVowel(word[j])}}

\* C14: for a word with at least one vowel letter and n_syllables >= 1,
\* map_syllables_to_chars returns exactly n_syllables indices, each the position
\* of a vowel letter of the word, in non-decreasing order; when the word has
\* exactly n_syllables vowel letters it returns exactly their positions.
C14_OneVowelPositionPerSyllable ==
    (pc = "align_done" /\ ~NoVowelLetter(al_word) /\ al_n >= 1)
    => LET r == al_result[1]
       IN  /\ r.raised = ""
           /\ Len(r.value) = al_n
           /\ \A k \in 1..Len(r.value) : r.value[k] \in VowelLetterPositions(al_word)
           /\ \A k \in 1..(Len(r.value) - 1) : r.value[k] <= r.value[k + 1]
           /\ Cardinality(VowelLetterPositions(al_word)) = al_n
              => /\ {r.value[k] : k \in 1..al_n} = VowelLetterPositions(al_word)
                 /\ \A k \in 1..(al_n - 1) : r.value[k] < r.value[k + 1]

\* C14 witness: "banana" has been aligned to three syllables, at its three "a"
C14_Witness ==
    /\ pc = "align_done"
    /\ al_word = <<98, 97, 110, 97, 110, 97>> (* "banana" *) /\ al_n = 3
    /\ al_result = Some([raised |-> "", value |-> <<1, 3, 5>>])

\* the vowel positions left after the silent-e step, which is taken when there
\* are more vowel letters than syllables
AfterSilentE(word, n) ==
    LET vp == VowelPositions(word)
    IN  IF Len(vp) > n /\ word[Len(word)] = 101 (* "e" *) /\ Len(vp) > 1
        THEN SubSeq(vp, 1, Len(vp) - 1) ELSE vp

\* a / b rounded to the nearest integer, a tie going to the even one (round())
RoundDiv(a, b) ==
    LET q == a \div b
        r == a % b
    IN  IF 2 * r < b THEN q
        ELSE IF 2 * r > b THEN q + 1
        ELSE IF q % 2 = 0 THEN q ELSE q + 1

\* C15 (as claimed): when more vowel positions than syllables remain after the
\* silent-e step, syllable i (from 0) gets the vowel position of index
\* round(i * V / n_syllables), V being the number of positions that remain.
C15_PicksNearestIndex ==
    (pc = "align_done" /\ al_n >= 1 /\ Len(AfterSilentE(al_word, al_n)) > al_n)
    => LET vp == AfterSilentE(al_word, al_n)
       IN  al_result[1].value =
              [k \in 1..al_n |-> vp[RoundDiv((k - 1) * Len(vp), al_n) + 1]]

\* C15 (amended): in that case syllable i gets the vowel position of index
\* int(i * (V / n_syllables)): the product is truncated, not rounded to the
\* nearest index, which for the words of the model is floor(i * V / n_syllables).
C15_PicksTruncatedIndex ==
    (pc = "align_done" /\ al_n >= 1 /\ Len(AfterSilentE(al_word, al_n)) > al_n)
    => LET vp == AfterSilentE(al_word, al_n)
       IN  /\ al_result[1] =
                 [raised |-> "",
                  value |-> [k \in 1..al_n |->
                                vp[IntOfProduct(k - 1, Len(vp), al_n) + 1]]]
           /\ \A k \in 1..al_n :
                 IntOfProduct(k - 1, Len(vp), al_n) = ((k - 1) * Len(vp)) \div al_n

\* C15 witness: "beautiful", five vowel letters, has been aligned to three
\* syllables: indices 0, 1 and 3 of its vowel positions 1, 2, 3, 5, 7
C15_Witness ==
    /\ pc = "align_done"
    /\ al_word = <<98, 101, 97, 117, 116, 105, 102, 117, 108>> (* "beautiful" *) /\ al_n = 3
    /\ al_result = Some([raised |-> "", value |-> <<1, 2, 5>>])

\* C16: every entry the dictionary holds after load has as many stress digits
\* as syllables, the entries whose phonemes carry no stress digit included.
C16_EntryLengthsAgree ==
    cmu_dict # None =>
       \A k \in DOMAIN cmu_dict[1] :
          Len(cmu_dict[1][k].stress_pattern) = Len(cmu_dict[1][k].syllables)

\* the line is an entry line for the key: a word without "(" that lower-cases
\* to the key, followed by at least one phoneme
IsPrimaryLineFor(raw_line, key) ==
    LET parts == Split(Strip(raw_line))
    IN  /\ Len(parts) >= 2
        /\ ~StartsWith(Strip(raw_line), <<59, 59, 59>> (* ";;;" *))
        /\ ~InSeq(40 (* "(" *), parts[1])
        /\ Lower(parts[1]) = key

\* C17: when the file has several lines for a word, the loaded entry holds the
\* phonemes of the first of its primary lines; a later line never replaces it.
C17_FirstLineIsRetained ==
    (pc = "idle" /\ cmu_dict # None) =>
       \A key \in DOMAIN cmu_dict[1] :
          LET file == dict_file[1]
              first == CHOOSE i \in 1..Len(file) :
                          /\ IsPrimaryLineFor(file[i], key)
                          /\ \A j \in 1..(i - 1) : ~IsPrimaryLineFor(file[j], key)
          IN  cmu_dict[1][key].phonemes = Tail(Split(Strip(file[first])))

\* C18: a call of get_cmu_dictionary that finds the file missing ends in
\* FileNotFoundError and installs no global instance; the instance, once
\* there, is the load of the file, never an empty stand-in; and as long as no
\* instance is installed every call has attempted the load, and has ended in
\* FileNotFoundError or, on a line int() refuses, in ValueError.
C18_MissingFileInstallsNothing ==
    /\ (dict_file = None /\ calls > 0)
       => outcome = "FileNotFoundError" /\ cmu_dict = None
    /\ (pc = "idle" /\ cmu_dict = None)
       => /\ loads = calls
          /\ calls > 0 =>
                \/ outcome = "FileNotFoundError"
                \/ /\ outcome = "ValueError" /\ dict_file # None
                   /\ \E k \in 1..Len(dict_file[1]) : LoadLineRaises(dict_file[1][k])
    /\ cmu_dict # None
       => dict_file # None /\ cmu_dict[1] = LoadLines(dict_file[1], <<>>)

\* C18 witness: a second call has found the file missing and has tried the
\* load again
C18_Witness ==
    /\ pc = "idle" /\ dict_file = None
    /\ calls = 2 /\ loads = 2
    /\ outcome = "FileNotFoundError" /\ cmu_dict = None

\* the entry stored at load time under lower(strip(w)): Some(entry), or None
StoredEntry(w) ==
    IF Lower(Strip(w)) \in DOMAIN Dictionary
    THEN Some(Dictionary[Lower(Strip(w))]) ELSE None

\* C19: after any sequence of calls of lookup and get_phonemes, lookup(w) has
\* returned the entry stored at load time under lower(strip(w)), or nothing when
\* there is none, from the cache or not; so repeated calls, and arguments that
\* differ in case or surrounding whitespace only, get identical contents.
C19_LookupReturnsStoredEntry ==
    /\ (last_call # None /\ last_call[1].fn = "lookup")
       => last_call[1].result = StoredEntry(last_call[1].arg)
    /\ \A i \in 1..Len(lookup_cache) :
          /\ lookup_cache[i].value = StoredEntry(lookup_cache[i].key)
          /\ \A j \in 1..Len(lookup_cache) :
                Lower(Strip(lookup_cache[i].key)) = Lower(Strip(lookup_cache[j].key))
                => lookup_cache[i].value = lookup_cache[j].value

\* C19 witness: lookup(" Tv\n") has been answered from the cache with the entry
\* of "tv", while the cache also holds the answer for "TV"
C19_Witness ==
    /\ last_call # None
    /\ last_call[1].fn = "lookup"
    /\ last_call[1].arg = <<32, 84, 118, 10>> (* " Tv\n" *)
    /\ last_call[1].hit
    /\ last_call[1].result = Some(Dictionary[<<116, 118>> (* "tv" *)])
    /\ \E i \in 1..Len(lookup_cache) : lookup_cache[i].key = <<84, 86>> (* "TV" *)

\* C20: in any sequence of calls the G2P predictor has been invoked only for
\* words for which the dictionary has no entry (none under the lower-cased
\* word, and none found by lookup), and get_phonemes of a word whose lower-cased
\* form is a dictionary entry has returned that entry's phonemes.
C20_G2POnlyAfterLookupMiss ==
    /\ \A i \in 1..Len(g2p_calls) :
          /\ Lower(g2p_calls[i]) \notin DOMAIN Dictionary
          /\ StoredEntry(Lower(g2p_calls[i])) = None
    /\ (/\ last_call # None
        /\ last_call[1].fn = "get_phonemes"
        /\ Lower(last_call[1].arg) \in DOMAIN Dictionary)
       => last_call[1].result = JoinSpace(Dictionary[Lower(last_call[1].arg)].phonemes)

\* C20 witness: the predictor has been invoked for "hmm" and not for "TV", whose
\* phonemes have come from the dictionary
C20_Witness ==
    /\ g2p_calls = <<<<104, 109, 109>> (* "hmm" *)>>
    /\ last_call # None
    /\ last_call[1].fn = "get_phonemes"
    /\ last_call[1].arg = <<84, 86>> (* "TV" *)
    /\ ~last_call[1].hit
    /\ last_call[1].result = JoinSpace(<<<<84>> (* "T" *), <<73, 89, 49>> (* "IY1" *), <<86>> (* "V" *), <<73, 89, 49>> (* "IY1" *)>>)

\* the (word, syllable) places of the analyses whose digit is above 0
StressedPlaces(analyses) ==
    {<<k, j>> \in (1..Len(analyses)) \X (1..MaxSyllables) :
        j <= Len(analyses[k].stress_pattern) /\ analyses[k].stress_pattern[j] > 0}

\* C21: in the StressAnalysisResult analyze_text returns, total_syllables is the
\* sum of len(stress_pattern) over the returned words and stressed_syllables is
\* the number of digits above 0 in the stress patterns of the returned words,
\* as they stand after the smoothing pass.
C21_TotalsMatchReturnedWords ==
    pc = "done" =>
       /\ Returned.total_syllables
             = SumSeq([k \in 1..Len(Returned.words) |->
                         Len(Returned.words[k].stress_pattern)])
       /\ Returned.stressed_syllables = Cardinality(StressedPlaces(Returned.words))

\* C21 witness: analyze_text has returned three words after a smoothing pass
\* that demoted a digit of its local sequence, one word with secondary stress
C21_Witness ==
    /\ pc = "done"
    /\ Len(word_analyses) = 3
    /\ stress_sequence # StressSequenceOf(word_analyses)
    /\ \E k \in 1..3 : word_analyses[k].stress_pattern = <<1, 2>>
    /\ stressed_syllables = 4

\* C22: for a multisyllabic token found in the dictionary (reasoning
\* cmu_dictionary_multisyllable) the stress_pattern of the WordAnalysis is the
\* dictionary entry's stress_pattern, digit for digit.
C22_DictionaryPatternVerbatim ==
    \A k \in 1..Len(word_analyses) :
        word_analyses[k].reasoning = <<"cmu", "dictionary", "multisyllable">>
        => word_analyses[k].stress_pattern
              = Dictionary[Lower(word_analyses[k].word)].stress_pattern

\* the number of stress-bearing phonemes of an entry
StressBearing(entry) ==
    Len(SelectSeq(entry.phonemes, LAMBDA q : q[Len(q)] \in {48 (* "0" *), 49 (* "1" *), 50 (* "2" *)}))

\* C28: every entry of the loaded dictionary with N >= 2 stress-bearing
\* phonemes and a word of length L holds the N spans
\* word[floor(i*L/N) : floor((i+1)*L/N)], the last one ending at L, which
\* concatenate to the word; with N <= 1 its one syllable is the word.
C28_EqualWidthSpans ==
    cmu_dict # None =>
       \A key \in DOMAIN cmu_dict[1] :
          LET entry == cmu_dict[1][key]
              N == StressBearing(entry)
              L == Len(entry.word)
          IN  IF N <= 1 THEN entry.syllables = <<entry.word>>
              ELSE /\ entry.syllables =
                        [k \in 1..N |->
                            Slice(entry.word, ((k - 1) * L) \div N,
                                  IF k < N THEN (k * L) \div N ELSE L)]
                   /\ Concat(entry.syllables) = entry.word

\* C23: however the concurrent callers of get_cmu_dictionary and of
\* get_stress_analyzer interleave, the dictionary is loaded at most once and
\* the callers of one function all receive the same instance.
C23_LoadedOnceSameInstance ==
    /\ dict_loads <= 1
    /\ \A c \in DOMAIN threads : \A d \in DOMAIN threads :
          (threads[c].at = "done" /\ threads[d].at = "done"
           /\ threads[c].op = threads[d].op)
          => threads[c].ret = threads[d].ret

\* C24: a completed batch answers with one line result for each line of the
\* request that is not empty after trimming, in the order of the request and
\* for its trimmed text, none for a blank line, and total_lines is their number.
C24_OneResultPerNonBlankLine ==
    (pc = "batch_done" /\ status = 200)
    => LET kept == NonBlankPositions(lines, Len(lines))
       IN  /\ Len(BatchResponse.lines) = Len(kept)
           /\ \A k \in 1..Len(kept) :
                 /\ k <= Len(BatchResponse.lines)
                 /\ BatchResponse.lines[k].text = Strip(LineText(lines[kept[k]]))
           /\ BatchResponse.total_lines = Len(kept)

\* C24 witness: a batch of a line, an empty line and a line has been answered
\* with two line results
C24_Witness ==
    /\ pc = "batch_done" /\ status = 200
    /\ Len(lines) = 3 /\ lines[2] = <<>>
    /\ Strip(LineText(lines[1])) # <<>> /\ Strip(LineText(lines[3])) # <<>>
    /\ BatchResponse.total_lines = 2 /\ Len(BatchResponse.lines) = 2

\* the three digits from position i (0-based) on are all positive
ClusterAt(seq, i) == seq[i + 1] > 0 /\ seq[i + 2] > 0 /\ seq[i + 3] > 0

\* C25: the smoothing scan is one non-overlapping pass: after a window of
\* three positive digits at i it continues at i + 3, otherwise at i + 1; it
\* ends (analyze_text returns); and it leaves clusters behind: five primary
\* stresses 1 1 1 1 1 end as 1 0 1 1 1.
C25_SingleNonOverlappingPass ==
    /\ [][(pc = "smooth" /\ pc' = "smooth")
          => scan_i' = scan_i + (IF ClusterAt(stress_sequence, scan_i) THEN 3 ELSE 1)]_vars
    /\ [](pc = "smooth" => scan_i <= Len(stress_sequence))
    /\ []((pc = "done" /\ StressSequenceOf(word_analyses) = <<1, 1, 1, 1, 1>>)
          => (stress_sequence = <<1, 0, 1, 1, 1>> /\ ClusterAt(stress_sequence, 2)))
    /\ (pc = "smooth") ~> (pc = "done")

\* C25 witness: the scan has run over five primary stresses and returned
C25_Witness ==
    /\ pc = "done"
    /\ StressSequenceOf(word_analyses) = <<1, 1, 1, 1, 1>>
    /\ stress_sequence = <<1, 0, 1, 1, 1>> /\ scan_i = 3

\* C26: what analyze_text returns for a text is what it returns with empty
\* caches, whatever calls of analyze_text, lookup and get_phonemes came
\* before and whatever they left in the caches; and the dictionary the
\* process holds keeps the entries it was loaded with.
C26_ResultIndependentOfHistory ==
    /\ (last_call # None /\ last_call[1].fn = "analyze_text")
       => last_call[1].result = AnalyzeText(g2p, last_call[1].arg)
    /\ cmu_dict = Some(Dictionary)
    /\ self_dictionary = Dictionary

\* C26 witness: the third call is an analyze_text that a cache answered in
\* part, after calls that filled the phoneme cache
C26_Witness ==
    /\ n_ops = 3 /\ last_call # None
    /\ last_call[1].fn = "analyze_text" /\ last_call[1].hit
    /\ Len(last_call[1].arg) = 3
    /\ Len(ph_cache) = PhonemeCacheSize

\* C29: a batch request refused for its missing or empty "lines" value is
\* answered with status 400, never 500.
C29_ValidationAnswered400 ==
    (pc = "batch_done" /\ lines = <<>>) => status = 400

\* C27: a get_song_settings whose query answers returns, for a song that
\* is stored for the user when it asks, a SongSettings value, which is the
\* default one when the stored settings are missing, falsy or rejected by the
\* constructor and the parsed one otherwise, and never raises; when no row
\* matches it raises 404 "Song not found".  This holds of every call, also
\* while calls of two round trips are in flight.
C27_SettingsOrNotFound ==
    [][(song_calls' = song_calls + 1 /\ supabase # None
            /\ requests'[Len(requests')].op = "get_song_settings"
            /\ ~requests'[Len(requests')].db_error)
       => LET q == requests'[Len(requests')]
              rows == SelectSong(songs_table, q.song_id, q.user_id)
          IN  /\ q.at = "done"
              /\ IF rows # <<>>
                 THEN LET has_key == \E i \in 1..Len(rows[1]) : rows[1][i][1] = "settings"
                          stored == DictGet(rows[1], "settings", JNull)
                      IN  /\ q.raised = None /\ q.returned # None
                          /\ q.returned[1].narrative_pov
                                \in {None} \cup {Some(p) : p \in NarrativePOV}
                          /\ q.returned[1].foundation.point_of_view \in NarrativePOV
                          /\ q.returned[1].style.energy_level \in 1..10
                          /\ Len(q.returned[1].central_theme) <= 1
                          /\ Len(q.returned[1].energy_level) <= 1
                          /\ (~has_key \/ ~Truthy(stored) \/ SongSettingsRaises(stored))
                                => q.returned[1] = DefaultSongSettings
                          /\ (has_key /\ Truthy(stored) /\ ~SongSettingsRaises(stored))
                                => q.returned[1] = SongSettingsFrom(stored)
                 ELSE /\ q.returned = None
                      /\ q.raised = Some([status_code |-> 404,
                                          detail |-> "Song not found"])]_vars

\* C27 witness: while a partial update waits for its update query,
\* get_song_settings has returned the defaults for a song whose stored
\* settings the constructor rejects
C27_Witness ==
    /\ pc = "songs" /\ supabase # None /\ song_calls > 1 /\ Len(requests) > 1
    /\ requests[1].op = "update_song_settings_partial" /\ requests[1].at = "write"
    /\ LET q == requests[Len(requests)]
           rows == SelectSong(songs_table, q.song_id, q.user_id)
       IN  /\ q.op = "get_song_settings" /\ q.at = "done" /\ ~q.db_error
           /\ rows # <<>>
           /\ Truthy(DictGet(rows[1], "settings", JNull))
           /\ SongSettingsRaises(DictGet(rows[1], "settings", JNull))
           /\ q.returned = Some(DefaultSongSettings)

\* C30: the version rows stored for a song carry the numbers 1, 2, 3, ...
\* in the order of their creation, hence pairwise distinct numbers.
C30_VersionsNumberedInOrder ==
    \A i \in 1..Len(song_versions) :
        song_versions[i].version_number =
            Cardinality({j \in 1..i : song_versions[j].song_id = song_versions[i].song_id})

====
